---------------------------- MODULE Spec2Model ----------------------------
(***************************************************************************)
(* A model of the mini-dodger combat simulation: player.py, enemy.py,      *)
(* bullet.py and game.py (the two-combatant game), as a state machine.     *)
(*                                                                         *)
(* Numbers.  The program works in Python floats; the model works in exact  *)
(* integers:                                                               *)
(*   - a charge is counted in units of ammo_recharge_rate (0.005), so a    *)
(*     full segment 1.0 is Full = 200 units;                               *)
(*   - a length is counted in 34ths of a pixel (Px(n) = 34n): the column   *)
(*     offset of a shot is +-7.5 pixels, and a bullet flying along         *)
(*     (8/17, 15/17) moves by whole units;                                 *)
(*   - a unit vector is counted in 17ths: <<17, 0>> is (1, 0) and          *)
(*     <<8, 15>> is (8/17, 15/17);                                         *)
(*   - a distance is never computed: sqrt(dx*dx + dy*dy) is only compared  *)
(*     with an integer, which is done on the squares.                      *)
(* In the game the directions are kept on the axes (the combatants stay on *)
(* one row), where the floats are exact.  Off the axes they are not: the   *)
(* distance a bullet has flown, as Bullet.update computes it, is an ulp or *)
(* so under or over the exact one, depending on the direction and on where *)
(* the bullet started.  A bullet carries the sign of that error (rounding) *)
(* and the model uses it where it decides a comparison.                    *)
(***************************************************************************)
EXTENDS Integers, Sequences, FiniteSets, TLC

VARIABLES
    player,                 \* the Player object (player.py)
    enemy,                  \* the Enemy object (enemy.py)
    player_bullets,         \* Game.player_bullets: sequence of Bullet
    enemy_bullets,          \* Game.enemy_bullets: sequence of Bullet
    game_over,              \* Game.game_over
    running,                \* Game.running
    show_hit_notification,  \* Game.show_hit_notification
    hit_notification_timer, \* Game.hit_notification_timer
    pc,                     \* position in Game.run: "events" or "update"
    tick,                   \* frames completed since construction
    call                    \* the last method call made and what it returned

vars == <<player, enemy, player_bullets, enemy_bullets, game_over, running,
          show_hit_notification, hit_notification_timer, pc, tick, call>>

---------------------------------------------------------------------------
(* Bounds of the model. *)

\* Frames a run of the game is followed for.
MaxTicks == 200
\* update_ammo calls a run of the scheduler harness makes.
MaxAmmoCalls == 4
\* Bullet.update calls a run of the bullet harness is followed for.
MaxBulletUpdates == 35
\* Enemy.take_damage calls made on one enemy
MaxDamageCalls == 12
\* bullets in a list of the collision harness
MaxBullets == 3
\* runs of a collision loop in the collision harness
MaxLoopRuns == 2
\* Enemy.update calls of the attack harness: a burst and the cooldown after it
MaxEnemyUpdates == 64
\* move and respawn_enemy calls of the movement harness
MaxMoves == 3
\* Game.update calls of the notification harness
MaxNoticeTicks == 60
\* Game.update calls of the tick-order harness
MaxOrderTicks == 2
\* update_ammo calls the round-trip harness makes on a full reservoir
MaxIdleTicks == 2
\* Bullet.update calls of the bounds harness
MaxBoundsUpdates == 8
\* Game.update calls of the respawn harness
MaxRespawnTicks == 2
\* Frames of the volley harness
MaxVolleyTicks == 130
\* The player's health at construction (the Player under src/ has none).
PlayerMaxHealth == 13
\* The user acts (mouse buttons, mouse movement, keys) every InputEvery frames.
InputEvery == 25
\* The user holds a movement key only on the first WalkFrames of those frames.
WalkFrames == 1

---------------------------------------------------------------------------
(* Program constants. *)

Full == 200                  \* 1.0, in units of ammo_recharge_rate
ammo_recharge_rate == 1      \* 0.005
max_ammo == 3

Px(n) == 34 * n              \* pixels to 34ths of a pixel

\* length times a unit vector's component (in 17ths)
Scaled(length, component) == (length * component) \div 17

width == 800
height == 600

---------------------------------------------------------------------------
(* Arithmetic helpers. *)

Sign(n) == IF n < 0 THEN -1 ELSE IF n > 0 THEN 1 ELSE 0
Max(a, b) == IF a >= b THEN a ELSE b

RECURSIVE SumFrom(_, _)
SumFrom(s, i) == IF i > Len(s) THEN 0 ELSE s[i] + SumFrom(s, i + 1)
\* sum(self.ammo)
Sum(s) == SumFrom(s, 1)

---------------------------------------------------------------------------
(* The ammo reservoir: has_ammo, consume_ammo, update_ammo.  Player and     *)
(* Enemy carry the same code.                                               *)

has_ammo(ammo) == \E i \in 1..Len(ammo) : ammo[i] >= Full

\* The loop "for i in range(len-1, -1, -1): if ammo[i] > 0: rightmost = i";
\* 0 stands for the code's -1 (segments are numbered from 1 here).
RightmostCharged(ammo) ==
    IF \E i \in 1..Len(ammo) : ammo[i] > 0
    THEN CHOOSE i \in 1..Len(ammo) :
            ammo[i] > 0 /\ \A j \in (i + 1)..Len(ammo) : ammo[j] <= 0
    ELSE 0

\* A drain that takes all that is left to consume from the first charged
\* segment it meets, whatever that segment holds.
RECURSIVE DrainLeft_overdraws(_, _, _)
DrainLeft_overdraws(ammo, i, remaining_to_consume) ==
    IF i < 1 THEN ammo
    ELSE IF ammo[i] > 0
         THEN [ammo EXCEPT ![i] = @ - remaining_to_consume]
         ELSE DrainLeft_overdraws(ammo, i - 1, remaining_to_consume)

\* The loop "for i in range(rightmost_index - 1, -1, -1)".
RECURSIVE DrainLeft(_, _, _)
DrainLeft(ammo, i, remaining_to_consume) ==
    IF i < 1 THEN ammo
    ELSE IF ammo[i] > 0
         THEN IF ammo[i] >= remaining_to_consume
              THEN [ammo EXCEPT ![i] = @ - remaining_to_consume]
              ELSE DrainLeft([ammo EXCEPT ![i] = 0], i - 1,
                             remaining_to_consume - ammo[i])
         ELSE DrainLeft(ammo, i - 1, remaining_to_consume)

\* A consume_ammo that only empties the rightmost charged segment.
consume_ammo_rightmost_only(ammo) ==
    LET r == RightmostCharged(ammo) IN
    IF r = 0 THEN [ok |-> FALSE, ammo |-> ammo]
    ELSE [ok |-> TRUE, ammo |-> [ammo EXCEPT ![r] = 0]]

\* A consume_ammo without the "total_ammo < 1.0" check.
consume_ammo_no_total_check(ammo) ==
    LET r == RightmostCharged(ammo) IN
    IF r = 0 THEN [ok |-> FALSE, ammo |-> ammo]
    ELSE IF ammo[r] >= Full
         THEN [ok |-> TRUE, ammo |-> [ammo EXCEPT ![r] = 0]]
         ELSE [ok |-> TRUE,
               ammo |-> DrainLeft([ammo EXCEPT ![r] = 0], r - 1, Full - ammo[r])]

\* consume_ammo: the result and the reservoir it leaves.
consume_ammo(ammo) ==
    LET r == RightmostCharged(ammo) IN
    IF Sum(ammo) < Full THEN [ok |-> FALSE, ammo |-> ammo]
    ELSE IF r = 0 THEN [ok |-> FALSE, ammo |-> ammo]
    ELSE IF ammo[r] >= Full
         THEN [ok |-> TRUE, ammo |-> [ammo EXCEPT ![r] = 0]]
         ELSE [ok |-> TRUE,
               ammo |-> DrainLeft([ammo EXCEPT ![r] = 0], r - 1, Full - ammo[r])]

\* The lowest segment below 1.0 (0: none).
FirstNotFull(ammo) ==
    IF \E i \in 1..Len(ammo) : ammo[i] < Full
    THEN CHOOSE i \in 1..Len(ammo) :
            ammo[i] < Full /\ \A j \in 1..(i - 1) : ammo[j] >= Full
    ELSE 0

\* An update_ammo that recharges the highest segment below 1.0.
update_ammo_highest_first(ammo, is_recharging) ==
    LET low == {i \in 1..Len(ammo) : ammo[i] < Full}
        i == IF low = {} THEN 0 ELSE CHOOSE k \in low : \A j \in low : j <= k
    IN  IF ~is_recharging THEN ammo
        ELSE IF i = 0 THEN ammo
        ELSE [ammo EXCEPT ![i] = IF @ + ammo_recharge_rate > Full THEN Full
                                 ELSE @ + ammo_recharge_rate]

\* An update_ammo that recharges every segment below 1.0.
update_ammo_all_segments(ammo, is_recharging) ==
    IF ~is_recharging THEN ammo
    ELSE [i \in 1..Len(ammo) |->
            IF ammo[i] < Full
            THEN (IF ammo[i] + ammo_recharge_rate > Full THEN Full
                  ELSE ammo[i] + ammo_recharge_rate)
            ELSE ammo[i]]

\* An update_ammo that recharges at twice the rate.
update_ammo_double_rate(ammo, is_recharging) ==
    LET i == FirstNotFull(ammo) IN
    IF ~is_recharging THEN ammo
    ELSE IF i = 0 THEN ammo
    ELSE [ammo EXCEPT ![i] = IF @ + 2 * ammo_recharge_rate > Full THEN Full
                             ELSE @ + 2 * ammo_recharge_rate]

\* An update_ammo that does not look at is_recharging.
update_ammo_never_suspended(ammo, is_recharging) ==
    LET i == FirstNotFull(ammo) IN
    IF i = 0 THEN ammo
    ELSE [ammo EXCEPT ![i] = IF @ + ammo_recharge_rate > Full THEN Full
                             ELSE @ + ammo_recharge_rate]

\* update_ammo
update_ammo(ammo, is_recharging) ==
    LET i == FirstNotFull(ammo) IN
    IF ~is_recharging THEN ammo
    ELSE IF i = 0 THEN ammo
    ELSE [ammo EXCEPT ![i] = IF @ + ammo_recharge_rate > Full THEN Full
                             ELSE @ + ammo_recharge_rate]


---------------------------------------------------------------------------
(* Construction: Player.__init__, Enemy.__init__, Game.init_game.          *)

\* Player.__init__ as called by init_game: the fields that never change.
PlayerCfg ==
    [radius |-> Px(30), speed |-> Px(5),
     bullet_count |-> 12, bullet_delay |-> 5, bullet_speed |-> Px(10),
     bullet_width |-> Px(20), bullet_height |-> Px(8),
     column_offset |-> Px(15), indicator_length |-> Px(300)]

\* Enemy.__init__ as called by init_game: the fields that never change.
EnemyCfg ==
    [radius |-> Px(30), speed |-> Px(3),
     bullet_count |-> 12, bullet_delay |-> 10, bullet_speed |-> Px(10),
     bullet_width |-> Px(20), bullet_height |-> Px(8),
     column_offset |-> Px(15), indicator_length |-> Px(300),
     max_health |-> 100, attack_range |-> Px(300), min_attack_cooldown |-> 60]

\* The Player init_game creates.  health is the field Game.update expects of
\* the player (player.take_damage); the Player class under src/ has none.
NewPlayer ==
    [x |-> Px(width \div 4), y |-> Px(height \div 2),
     aiming |-> FALSE, aim_direction |-> <<17, 0>>,
     shooting |-> FALSE, bullet_queue |-> <<>>,
     ammo |-> [i \in 1..max_ammo |-> Full], is_recharging |-> TRUE,
     health |-> PlayerMaxHealth]

\* The Enemy init_game creates (its target is the player).
NewEnemy ==
    [x |-> Px((width * 3) \div 4), y |-> Px(height \div 2),
     aim_direction |-> <<17, 0>>,
     shooting |-> FALSE, bullet_queue |-> <<>>,
     ammo |-> [i \in 1..max_ammo |-> Full], is_recharging |-> TRUE,
     health |-> 100, attack_cooldown |-> 0]

\* Game.player_bullet_damage, Game.enemy_bullet_damage,
\* Game.hit_notification_duration, and respawn_enemy's min_distance.
GameCfg ==
    [player_bullet_damage |-> 10, enemy_bullet_damage |-> 1,
     hit_notification_duration |-> 30, min_distance |-> Px(300)]

\* No method call recorded.
NoCall == [op |-> "none", who |-> "none", before |-> [ammo |-> <<>>], ret |-> FALSE,
           n |-> 0, emitted |-> <<>>]

---------------------------------------------------------------------------
(* Bullet (bullet.py). *)

\* Bullet.__init__; the scheduler's bullets fly along an axis, where the
\* distance flown is computed exactly (rounding 0).
NewBullet(x, y, direction, cfg) ==
    [x |-> x, y |-> y, start_x |-> x, start_y |-> y, direction |-> direction,
     speed |-> cfg.bullet_speed, width |-> cfg.bullet_width,
     height |-> cfg.bullet_height, max_distance |-> cfg.indicator_length,
     rounding |-> 0, active |-> TRUE]

\* distance_traveled * distance_traveled after the move, exactly
DistanceTraveledSq(b) ==
    (b.x - b.start_x) * (b.x - b.start_x) + (b.y - b.start_y) * (b.y - b.start_y)

\* "self.distance_traveled >= self.max_distance" on the float computed by
\* math.sqrt(dx * dx + dy * dy): where the exact distance is max_distance
\* the rounding decides.
ReachedMaxDistance(b) ==
    \/ DistanceTraveledSq(b) > b.max_distance * b.max_distance
    \/ DistanceTraveledSq(b) = b.max_distance * b.max_distance /\ b.rounding >= 0

\* A bounds test that is not padded by the bullet's size.
OffScreen_unpadded(b) ==
    \/ b.x < 0
    \/ b.x > Px(width)
    \/ b.y < 0
    \/ b.y > Px(height)

\* "x < -width or x > screen_width + width or y < -height or y > ..."
OffScreen(b) ==
    \/ b.x < -b.width
    \/ b.x > Px(width) + b.width
    \/ b.y < -b.height
    \/ b.y > Px(height) + b.height

\* Bullet.update (game.py passes no player_dx, player_dy: both are 0)
Bullet_update(b) ==
    LET m == [b EXCEPT !.x = @ + Scaled(b.speed, b.direction[1]),
                       !.y = @ + Scaled(b.speed, b.direction[2])]
    IN  IF ReachedMaxDistance(m)
        THEN [m EXCEPT !.active = FALSE]
        ELSE IF OffScreen(m) THEN [m EXCEPT !.active = FALSE] ELSE m

---------------------------------------------------------------------------
(* The burst scheduler: start_shooting and update_shooting.                *)

\* A Shot whose right column fires in step with the left one.
Shot_columns_in_step(i, aim_direction, cfg) ==
    LET perp_x == -aim_direction[2]
        perp_y == aim_direction[1]
        twice_offset_factor == IF i % 2 = 0 THEN -1 ELSE 1
    IN  [dir |-> aim_direction,
         delay |-> cfg.bullet_delay * (i \div 2),
         offset_x |-> Scaled(cfg.column_offset * twice_offset_factor, perp_x) \div 2,
         offset_y |-> Scaled(cfg.column_offset * twice_offset_factor, perp_y) \div 2]

\* A Shot whose right column is late by half the delay rounded up.
Shot_half_delay_rounded_up(i, aim_direction, cfg) ==
    LET perp_x == -aim_direction[2]
        perp_y == aim_direction[1]
        is_left_column == (i % 2 = 0)
        twice_offset_factor == IF is_left_column THEN -1 ELSE 1
        column_delay == cfg.bullet_delay * (i \div 2)
                        + (IF is_left_column THEN 0 ELSE (cfg.bullet_delay + 1) \div 2)
    IN  [dir |-> aim_direction,
         delay |-> column_delay,
         offset_x |-> Scaled(cfg.column_offset * twice_offset_factor, perp_x) \div 2,
         offset_y |-> Scaled(cfg.column_offset * twice_offset_factor, perp_y) \div 2]

\* Shot i (from 0) of a burst: (bullet_dir, column_delay, offset_x, offset_y).
\* random.uniform(-spread, spread) is drawn as 0, so bullet_dir is the aim.
Shot(i, aim_direction, cfg) ==
    LET perp_x == -aim_direction[2]
        perp_y == aim_direction[1]
        is_left_column == (i % 2 = 0)
        twice_offset_factor == IF is_left_column THEN -1 ELSE 1
        column_delay == cfg.bullet_delay * (i \div 2)
                        + (IF is_left_column THEN 0 ELSE cfg.bullet_delay \div 2)
    IN  [dir |-> aim_direction,
         delay |-> column_delay,
         offset_x |-> Scaled(cfg.column_offset * twice_offset_factor, perp_x) \div 2,
         offset_y |-> Scaled(cfg.column_offset * twice_offset_factor, perp_y) \div 2]

\* The loop "for i in range(self.bullet_count): ... bullet_queue.append(...)"
AppendBurst(queue, aim_direction, cfg) ==
    queue \o [k \in 1..cfg.bullet_count |-> Shot(k - 1, aim_direction, cfg)]

\* What start_shooting does once its checks have passed; the enemy's also
\* sets attack_cooldown.
BeginBurst(c, cfg, ammo) ==
    LET b == [c EXCEPT !.ammo = ammo, !.shooting = TRUE, !.is_recharging = FALSE,
                       !.bullet_queue = AppendBurst(@, c.aim_direction, cfg)]
    IN  IF "attack_cooldown" \in DOMAIN c
        THEN [b EXCEPT !.attack_cooldown = cfg.min_attack_cooldown]
        ELSE b

\* A start_shooting without the "already shooting" check.
start_shooting_overlapping(c, cfg) ==
    LET r == consume_ammo(c.ammo) IN
    IF ~has_ammo(c.ammo) THEN c
    ELSE IF ~r.ok THEN c
    ELSE BeginBurst(c, cfg, r.ammo)

\* A start_shooting that suspends recharging before its ammo check.
start_shooting_suspends_first(c, cfg) ==
    LET r == consume_ammo(c.ammo) IN
    IF c.shooting THEN c
    ELSE IF ~has_ammo(c.ammo) \/ ~r.ok THEN [c EXCEPT !.is_recharging = FALSE]
    ELSE BeginBurst(c, cfg, r.ammo)

\* start_shooting (Player and Enemy)
start_shooting(c, cfg) ==
    LET r == consume_ammo(c.ammo) IN
    IF c.shooting \/ ~has_ammo(c.ammo) THEN c
    ELSE IF ~r.ok THEN c
    ELSE BeginBurst(c, cfg, r.ammo)

\* Player.start_shooting
Player_start_shooting(p) == start_shooting(p, PlayerCfg)

\* Enemy.start_shooting
Enemy_start_shooting(e) == start_shooting(e, EnemyCfg)

Due(q) == q.delay <= 0
NotDue(q) == ~Due(q)

\* An update_shooting that first decrements every delay and then emits the
\* shots whose delay has reached 0.
update_shooting_decrement_first(c, cfg, bullets) ==
    LET dec == [k \in 1..Len(c.bullet_queue) |->
                  [c.bullet_queue[k] EXCEPT !.delay = @ - 1]]
        due == SelectSeq(dec, Due)
        queue == SelectSeq(dec, NotDue)
        new == [k \in 1..Len(due) |->
                  NewBullet(c.x + due[k].offset_x, c.y + due[k].offset_y,
                            due[k].dir, cfg)]
    IN  [c |-> IF Len(queue) = 0
               THEN [c EXCEPT !.bullet_queue = queue, !.shooting = FALSE,
                              !.is_recharging = TRUE]
               ELSE [c EXCEPT !.bullet_queue = queue],
         bullets |-> bullets \o new]

\* An update_shooting that fires each shot along the aim of the moment.
update_shooting_along_current_aim(c, cfg, bullets) ==
    LET due == SelectSeq(c.bullet_queue, Due)
        rest == SelectSeq(c.bullet_queue, NotDue)
        queue == [k \in 1..Len(rest) |-> [rest[k] EXCEPT !.delay = @ - 1]]
        new == [k \in 1..Len(due) |->
                  NewBullet(c.x + due[k].offset_x, c.y + due[k].offset_y,
                            c.aim_direction, cfg)]
    IN  [c |-> IF Len(queue) = 0
               THEN [c EXCEPT !.bullet_queue = queue, !.shooting = FALSE,
                              !.is_recharging = TRUE]
               ELSE [c EXCEPT !.bullet_queue = queue],
         bullets |-> bullets \o new]

\* An update_shooting that ends the burst only on a call that finds the
\* queue already empty.
update_shooting_ends_a_call_late(c, cfg, bullets) ==
    LET due == SelectSeq(c.bullet_queue, Due)
        rest == SelectSeq(c.bullet_queue, NotDue)
        queue == [k \in 1..Len(rest) |-> [rest[k] EXCEPT !.delay = @ - 1]]
        new == [k \in 1..Len(due) |->
                  NewBullet(c.x + due[k].offset_x, c.y + due[k].offset_y,
                            due[k].dir, cfg)]
    IN  [c |-> IF Len(c.bullet_queue) = 0
               THEN [c EXCEPT !.bullet_queue = queue, !.shooting = FALSE,
                              !.is_recharging = TRUE]
               ELSE [c EXCEPT !.bullet_queue = queue],
         bullets |-> bullets \o new]

\* An update_shooting that ends the burst without enabling recharging again.
update_shooting_recharge_left_off(c, cfg, bullets) ==
    LET due == SelectSeq(c.bullet_queue, Due)
        rest == SelectSeq(c.bullet_queue, NotDue)
        queue == [k \in 1..Len(rest) |-> [rest[k] EXCEPT !.delay = @ - 1]]
        new == [k \in 1..Len(due) |->
                  NewBullet(c.x + due[k].offset_x, c.y + due[k].offset_y,
                            due[k].dir, cfg)]
    IN  [c |-> IF Len(queue) = 0
               THEN [c EXCEPT !.bullet_queue = queue, !.shooting = FALSE]
               ELSE [c EXCEPT !.bullet_queue = queue],
         bullets |-> bullets \o new]

\* An update_shooting that leaves the shooting flag as it is.
update_shooting_flag_kept(c, cfg, bullets) ==
    LET due == SelectSeq(c.bullet_queue, Due)
        rest == SelectSeq(c.bullet_queue, NotDue)
        queue == [k \in 1..Len(rest) |-> [rest[k] EXCEPT !.delay = @ - 1]]
        new == [k \in 1..Len(due) |->
                  NewBullet(c.x + due[k].offset_x, c.y + due[k].offset_y,
                            due[k].dir, cfg)]
    IN  [c |-> [c EXCEPT !.bullet_queue = queue],
         bullets |-> bullets \o new]

\* update_shooting: every due shot becomes a Bullet at the owner's position
\* plus the shot's offset and leaves the queue; every other delay drops by 1.
update_shooting(c, cfg, bullets) ==
    LET due == SelectSeq(c.bullet_queue, Due)
        rest == SelectSeq(c.bullet_queue, NotDue)
        queue == [k \in 1..Len(rest) |-> [rest[k] EXCEPT !.delay = @ - 1]]
        new == [k \in 1..Len(due) |->
                  NewBullet(c.x + due[k].offset_x, c.y + due[k].offset_y,
                            due[k].dir, cfg)]
    IN  [c |-> IF Len(queue) = 0
               THEN [c EXCEPT !.bullet_queue = queue, !.shooting = FALSE,
                              !.is_recharging = TRUE]
               ELSE [c EXCEPT !.bullet_queue = queue],
         bullets |-> bullets \o new]

\* Player.update_shooting
Player_update_shooting(p, bullets) == update_shooting(p, PlayerCfg, bullets)

\* Enemy.update_shooting
Enemy_update_shooting(e, bullets) == update_shooting(e, EnemyCfg, bullets)


---------------------------------------------------------------------------
(* Movement, aim, damage. *)

\* A move that is dropped whole when either coordinate would leave the screen.
move_all_or_nothing(c, cfg, dx, dy) ==
    LET new_x == c.x + dx
        new_y == c.y + dy
        x_ok == new_x - cfg.radius >= 0 /\ new_x + cfg.radius <= Px(width)
        y_ok == new_y - cfg.radius >= 0 /\ new_y + cfg.radius <= Px(height)
    IN  IF x_ok /\ y_ok THEN [c EXCEPT !.x = new_x, !.y = new_y] ELSE c

\* Player.move / Enemy.move: each axis moves only if it stays in bounds.
move(c, cfg, dx, dy) ==
    LET new_x == c.x + dx
        new_y == c.y + dy
        x_ok == new_x - cfg.radius >= 0 /\ new_x + cfg.radius <= Px(width)
        y_ok == new_y - cfg.radius >= 0 /\ new_y + cfg.radius <= Px(height)
    IN  [c EXCEPT !.x = IF x_ok THEN new_x ELSE @,
                  !.y = IF y_ok THEN new_y ELSE @]

\* (dx / length, dy / length), in 17ths: exact for a vector on an axis and
\* for one whose sides are as 8 to 15, the vectors the model draws; to the
\* nearest 17th of the diagonal for any other.
Normalized(dx, dy) ==
    IF dx = 0 \/ dy = 0 THEN <<17 * Sign(dx), 17 * Sign(dy)>>
    ELSE IF 15 * dx * Sign(dx) = 8 * dy * Sign(dy) THEN <<8 * Sign(dx), 15 * Sign(dy)>>
    ELSE IF 8 * dx * Sign(dx) = 15 * dy * Sign(dy) THEN <<15 * Sign(dx), 8 * Sign(dy)>>
    ELSE <<12 * Sign(dx), 12 * Sign(dy)>>

\* Player.update_aim(mouse_pos) / Enemy.update_aim() with the target's position
update_aim(c, tx, ty) ==
    LET dx == tx - c.x
        dy == ty - c.y
    IN  IF dx * dx + dy * dy > 0
        THEN [c EXCEPT !.aim_direction = Normalized(dx, dy)]
        ELSE c

\* "distance > attack_range - radius - target.radius", on the squares
OutOfRange(e, target) ==
    LET dx == target.x - e.x
        dy == target.y - e.y
        reach == EnemyCfg.attack_range - EnemyCfg.radius - PlayerCfg.radius
    IN  dx * dx + dy * dy > reach * reach

\* A move_towards_target that walks whether or not the target is in range.
Enemy_move_towards_target_in_range_too(e, target) ==
    LET d == Normalized(target.x - e.x, target.y - e.y)
    IN  move(e, EnemyCfg, Scaled(EnemyCfg.speed, d[1]), Scaled(EnemyCfg.speed, d[2]))

\* Enemy.move_towards_target
Enemy_move_towards_target(e, target) ==
    LET dx == target.x - e.x
        dy == target.y - e.y
        d == Normalized(dx, dy)
    IN  IF OutOfRange(e, target)
        THEN move(e, EnemyCfg, Scaled(EnemyCfg.speed, d[1]), Scaled(EnemyCfg.speed, d[2]))
        ELSE e

\* A can_attack_target that does not wait for the cooldown.
can_attack_target_any_cooldown(e, target) ==
    IF e.shooting \/ ~has_ammo(e.ammo) THEN FALSE
    ELSE ~OutOfRange(e, target)

\* A can_attack_target that wants the cooldown below 0.
can_attack_target_cooldown_below_zero(e, target) ==
    IF e.shooting \/ ~has_ammo(e.ammo) THEN FALSE
    ELSE ~OutOfRange(e, target) /\ e.attack_cooldown < 0

\* Enemy.can_attack_target
can_attack_target(e, target) ==
    IF e.shooting \/ ~has_ammo(e.ammo) THEN FALSE
    ELSE ~OutOfRange(e, target) /\ e.attack_cooldown <= 0

\* An Enemy.update that takes two off the cooldown on every call.
Enemy_update_cooldown_by_two(e, target, bullets) ==
    LET e1 == [e EXCEPT !.ammo = update_ammo(e.ammo, e.is_recharging)]
        e2 == [e1 EXCEPT !.attack_cooldown = IF @ > 0 THEN @ - 2 ELSE @]
        e3 == update_aim(e2, target.x, target.y)
        e4 == IF ~e3.shooting /\ can_attack_target(e3, target)
              THEN Enemy_start_shooting(e3) ELSE e3
    IN  IF e4.shooting THEN Enemy_update_shooting(e4, bullets)
        ELSE [c |-> e4, bullets |-> bullets]

\* Enemy.update
Enemy_update(e, target, bullets) ==
    LET e1 == [e EXCEPT !.ammo = update_ammo(e.ammo, e.is_recharging)]
        e2 == [e1 EXCEPT !.attack_cooldown = IF @ > 0 THEN @ - 1 ELSE @]
        e3 == update_aim(e2, target.x, target.y)
        e4 == IF ~e3.shooting /\ can_attack_target(e3, target)
              THEN Enemy_start_shooting(e3) ELSE e3
    IN  IF e4.shooting THEN Enemy_update_shooting(e4, bullets)
        ELSE [c |-> e4, bullets |-> bullets]

\* An Enemy.take_damage that reports death only below 0.
Enemy_take_damage_dead_below_zero(e, damage) ==
    [c |-> [e EXCEPT !.health = Max(0, e.health - damage)],
     is_dead |-> e.health - damage < 0]

\* Enemy.take_damage: the enemy after it, and whether it is dead
Enemy_take_damage(e, damage) ==
    LET h == Max(0, e.health - damage)
    IN  [c |-> [e EXCEPT !.health = h], is_dead |-> h <= 0]

\* player.take_damage as Game.update uses it: the Player class under src/ does
\* not define it; it is taken to be the enemy's.
Player_take_damage(p, damage) ==
    LET h == Max(0, p.health - damage)
    IN  [c |-> [p EXCEPT !.health = h], is_dead |-> h <= 0]

\* A collision test that counts a bullet on the circle as a hit.
Hits_on_circle(b, c, radius) ==
    (b.x - c.x) * (b.x - c.x) + (b.y - c.y) * (b.y - c.y) <= radius * radius

\* "distance < radius" between a bullet and a combatant, on the squares
Hits(b, c, radius) ==
    (b.x - c.x) * (b.x - c.x) + (b.y - c.y) * (b.y - c.y) < radius * radius

\* A distance test that asks for 500 pixels.
FarEnough_of_500(x, y, p) ==
    (x - p.x) * (x - p.x) + (y - p.y) * (y - p.y) >= Px(500) * Px(500)

\* "distance >= min_distance" in respawn_enemy
FarEnough(x, y, p) ==
    (x - p.x) * (x - p.x) + (y - p.y) * (y - p.y)
        >= GameCfg.min_distance * GameCfg.min_distance

\* A respawn_enemy whose loop takes the first point in the screen.
SpawnPointsAnywhere(p) ==
    {s \in {<<EnemyCfg.radius, p.y>>, <<Px(width) - EnemyCfg.radius, p.y>>,
            <<p.x - GameCfg.min_distance, p.y>>,
            <<p.x + GameCfg.min_distance, p.y>>} :
        /\ s[1] >= EnemyCfg.radius /\ s[1] <= Px(width) - EnemyCfg.radius
        /\ s[2] >= EnemyCfg.radius /\ s[2] <= Px(height) - EnemyCfg.radius}

\* The points respawn_enemy's loop can end on, among those of the player's row
\* the model draws from: the two ends of the row and the two points at
\* min_distance from the player.
SpawnPoints(p) ==
    {s \in {<<EnemyCfg.radius, p.y>>, <<Px(width) - EnemyCfg.radius, p.y>>,
            <<p.x - GameCfg.min_distance, p.y>>,
            <<p.x + GameCfg.min_distance, p.y>>} :
        /\ s[1] >= EnemyCfg.radius /\ s[1] <= Px(width) - EnemyCfg.radius
        /\ s[2] >= EnemyCfg.radius /\ s[2] <= Px(height) - EnemyCfg.radius
        /\ FarEnough(s[1], s[2], p)}

\* A respawn_enemy that puts a newly made enemy at the point.
respawn_enemy_made_anew(e, spawn) ==
    [e EXCEPT !.health = EnemyCfg.max_health, !.x = spawn[1], !.y = spawn[2],
              !.ammo = [i \in 1..max_ammo |-> Full], !.bullet_queue = <<>>,
              !.shooting = FALSE, !.is_recharging = TRUE,
              !.attack_cooldown = 0]

\* A respawn_enemy that only moves the enemy.
respawn_enemy_health_left(e, spawn) ==
    [e EXCEPT !.x = spawn[1], !.y = spawn[2]]

\* Game.respawn_enemy, its random point being spawn
respawn_enemy(e, spawn) ==
    [e EXCEPT !.health = EnemyCfg.max_health, !.x = spawn[1], !.y = spawn[2]]


---------------------------------------------------------------------------
(* Game.update (game.py). *)

\* A player-bullet loop that tests the collision before it looks at
\* bullet.active.
RECURSIVE PlayerBulletsFrom_collides_first(_, _, _, _, _, _)
PlayerBulletsFrom_collides_first(bs, i, kept, e, p, spawn) ==
    IF i > Len(bs) THEN [bullets |-> kept, enemy |-> e]
    ELSE LET b == Bullet_update(bs[i])
             d == Enemy_take_damage(e, GameCfg.player_bullet_damage)
         IN  IF Hits(b, e, EnemyCfg.radius)
             THEN PlayerBulletsFrom_collides_first(bs, i + 1, kept,
                      IF d.is_dead THEN respawn_enemy(d.c, spawn) ELSE d.c,
                      p, spawn)
             ELSE IF ~b.active
             THEN PlayerBulletsFrom_collides_first(bs, i + 1, kept, e, p, spawn)
             ELSE PlayerBulletsFrom_collides_first(bs, i + 1, Append(kept, b),
                                                   e, p, spawn)

\* A player-bullet loop that leaves in the list the bullets that have gone
\* inactive.
RECURSIVE PlayerBulletsFrom_keeps_spent(_, _, _, _, _, _)
PlayerBulletsFrom_keeps_spent(bs, i, kept, e, p, spawn) ==
    IF i > Len(bs) THEN [bullets |-> kept, enemy |-> e]
    ELSE LET b == Bullet_update(bs[i])
             d == Enemy_take_damage(e, GameCfg.player_bullet_damage)
         IN  IF ~b.active
             THEN PlayerBulletsFrom_keeps_spent(bs, i + 1, Append(kept, b), e, p, spawn)
             ELSE IF Hits(b, e, EnemyCfg.radius)
             THEN PlayerBulletsFrom_keeps_spent(bs, i + 1, kept,
                      IF d.is_dead THEN respawn_enemy(d.c, spawn) ELSE d.c,
                      p, spawn)
             ELSE PlayerBulletsFrom_keeps_spent(bs, i + 1, Append(kept, b), e, p, spawn)

\* The loop over player_bullets[:] from bullet i on: advance, drop the
\* inactive, test the rest against the enemy (where it is now), damage it
\* and respawn it when it dies.
RECURSIVE PlayerBulletsFrom(_, _, _, _, _, _)
PlayerBulletsFrom(bs, i, kept, e, p, spawn) ==
    IF i > Len(bs) THEN [bullets |-> kept, enemy |-> e]
    ELSE LET b == Bullet_update(bs[i])
             d == Enemy_take_damage(e, GameCfg.player_bullet_damage)
         IN  IF ~b.active THEN PlayerBulletsFrom(bs, i + 1, kept, e, p, spawn)
             ELSE IF Hits(b, e, EnemyCfg.radius)
             THEN PlayerBulletsFrom(bs, i + 1, kept,
                      IF d.is_dead THEN respawn_enemy(d.c, spawn) ELSE d.c,
                      p, spawn)
             ELSE PlayerBulletsFrom(bs, i + 1, Append(kept, b), e, p, spawn)

\* An enemy-bullet loop that never ends the round.
RECURSIVE EnemyBulletsNoGameOver(_, _, _, _)
EnemyBulletsNoGameOver(bs, i, kept, st) ==
    IF i > Len(bs) THEN [st EXCEPT !.bullets = kept]
    ELSE LET b == Bullet_update(bs[i])
             d == Player_take_damage(st.player, GameCfg.enemy_bullet_damage)
         IN  IF ~b.active THEN EnemyBulletsNoGameOver(bs, i + 1, kept, st)
             ELSE IF Hits(b, st.player, PlayerCfg.radius)
             THEN EnemyBulletsNoGameOver(bs, i + 1, kept,
                      [st EXCEPT !.player = d.c, !.show = TRUE,
                                 !.timer = GameCfg.hit_notification_duration])
             ELSE EnemyBulletsNoGameOver(bs, i + 1, Append(kept, b), st)

\* The loop over enemy_bullets[:] from bullet i on: advance, drop the
\* inactive, test the rest against the player, damage it, arm the hit
\* notification and end the round when the player is dead.
RECURSIVE EnemyBulletsFrom(_, _, _, _)
EnemyBulletsFrom(bs, i, kept, st) ==
    IF i > Len(bs) THEN [st EXCEPT !.bullets = kept]
    ELSE LET b == Bullet_update(bs[i])
             d == Player_take_damage(st.player, GameCfg.enemy_bullet_damage)
         IN  IF ~b.active THEN EnemyBulletsFrom(bs, i + 1, kept, st)
             ELSE IF Hits(b, st.player, PlayerCfg.radius)
             THEN EnemyBulletsFrom(bs, i + 1, kept,
                      [st EXCEPT !.player = d.c, !.show = TRUE,
                                 !.timer = GameCfg.hit_notification_duration,
                                 !.game_over = IF d.is_dead THEN TRUE ELSE @])
             ELSE EnemyBulletsFrom(bs, i + 1, Append(kept, b), st)

\* player_dx, player_dy from the keys held
KeysDx(keys) == (IF "d" \in keys THEN PlayerCfg.speed ELSE 0)
                - (IF "a" \in keys THEN PlayerCfg.speed ELSE 0)
KeysDy(keys) == (IF "s" \in keys THEN PlayerCfg.speed ELSE 0)
                - (IF "w" \in keys THEN PlayerCfg.speed ELSE 0)

\* A Game.update whose enemy moves and decides before the player's bullets
\* are advanced and tested against it.
PlayingUpdate_enemy_decides_first(g, keys, spawn) ==
    LET timer1 == IF g.show THEN g.timer - 1 ELSE g.timer
        show1 == IF g.show /\ timer1 <= 0 THEN FALSE ELSE g.show
        p1 == move(g.player, PlayerCfg, KeysDx(keys), KeysDy(keys))
        p2 == [p1 EXCEPT !.ammo = update_ammo(p1.ammo, p1.is_recharging)]
        ps == IF p2.shooting THEN Player_update_shooting(p2, g.player_bullets)
              ELSE [c |-> p2, bullets |-> g.player_bullets]
        e1 == Enemy_move_towards_target(g.enemy, ps.c)
        eu == Enemy_update(e1, ps.c, g.enemy_bullets)
        pb == PlayerBulletsFrom(ps.bullets, 1, <<>>, eu.c, ps.c, spawn)
        eb == EnemyBulletsFrom(eu.bullets, 1, <<>>,
                  [player |-> ps.c, bullets |-> <<>>, show |-> show1,
                   timer |-> timer1, game_over |-> g.game_over])
    IN  [g EXCEPT !.player = eb.player, !.enemy = pb.enemy,
                  !.player_bullets = pb.bullets, !.enemy_bullets = eb.bullets,
                  !.game_over = eb.game_over, !.show = eb.show,
                  !.timer = eb.timer]

\* A Game.update that clears the hit notification one tick late.
PlayingUpdate_clears_late(g, keys, spawn) ==
    LET timer1 == IF g.show THEN g.timer - 1 ELSE g.timer
        show1 == IF g.show /\ timer1 < 0 THEN FALSE ELSE g.show
        p1 == move(g.player, PlayerCfg, KeysDx(keys), KeysDy(keys))
        p2 == [p1 EXCEPT !.ammo = update_ammo(p1.ammo, p1.is_recharging)]
        ps == IF p2.shooting THEN Player_update_shooting(p2, g.player_bullets)
              ELSE [c |-> p2, bullets |-> g.player_bullets]
        pb == PlayerBulletsFrom(ps.bullets, 1, <<>>, g.enemy, ps.c, spawn)
        e1 == Enemy_move_towards_target(pb.enemy, ps.c)
        eu == Enemy_update(e1, ps.c, g.enemy_bullets)
        eb == EnemyBulletsFrom(eu.bullets, 1, <<>>,
                  [player |-> ps.c, bullets |-> <<>>, show |-> show1,
                   timer |-> timer1, game_over |-> g.game_over])
    IN  [g EXCEPT !.player = eb.player, !.enemy = eu.c,
                  !.player_bullets = pb.bullets, !.enemy_bullets = eb.bullets,
                  !.game_over = eb.game_over, !.show = eb.show,
                  !.timer = eb.timer]

\* Game.update while the round is on: notification timer, player movement,
\* player ammo and scheduler, player bullets, enemy movement, Enemy.update,
\* enemy bullets.
PlayingUpdate(g, keys, spawn) ==
    LET timer1 == IF g.show THEN g.timer - 1 ELSE g.timer
        show1 == IF g.show /\ timer1 <= 0 THEN FALSE ELSE g.show
        p1 == move(g.player, PlayerCfg, KeysDx(keys), KeysDy(keys))
        p2 == [p1 EXCEPT !.ammo = update_ammo(p1.ammo, p1.is_recharging)]
        ps == IF p2.shooting THEN Player_update_shooting(p2, g.player_bullets)
              ELSE [c |-> p2, bullets |-> g.player_bullets]
        pb == PlayerBulletsFrom(ps.bullets, 1, <<>>, g.enemy, ps.c, spawn)
        e1 == Enemy_move_towards_target(pb.enemy, ps.c)
        eu == Enemy_update(e1, ps.c, g.enemy_bullets)
        eb == EnemyBulletsFrom(eu.bullets, 1, <<>>,
                  [player |-> ps.c, bullets |-> <<>>, show |-> show1,
                   timer |-> timer1, game_over |-> g.game_over])
    IN  [g EXCEPT !.player = eb.player, !.enemy = eu.c,
                  !.player_bullets = pb.bullets, !.enemy_bullets = eb.bullets,
                  !.game_over = eb.game_over, !.show = eb.show,
                  !.timer = eb.timer]

\* A Game.update without the game_over check.
Game_update_ignores_game_over(g, keys, spawn) == PlayingUpdate(g, keys, spawn)

\* Game.update: the round after one call, with the keys held and the point
\* respawn_enemy draws.
Game_update(g, keys, spawn) ==
    IF g.game_over THEN g ELSE PlayingUpdate(g, keys, spawn)

---------------------------------------------------------------------------
(* Game.init_game and Game.handle_events. *)

\* Game.init_game: the round it creates.
init_game ==
    [player |-> NewPlayer, enemy |-> NewEnemy, player_bullets |-> <<>>,
     enemy_bullets |-> <<>>, game_over |-> FALSE, show |-> FALSE, timer |-> 0,
     running |-> TRUE]

\* A handle_events whose Try Again only clears game_over.
HandleEvent_restart_keeps_round(g, ev) ==
    IF ev.type = "QUIT" THEN [g EXCEPT !.running = FALSE]
    ELSE IF ev.type = "MOUSEBUTTONDOWN"
    THEN IF g.game_over
         THEN IF ev.region = "try_again" THEN [g EXCEPT !.game_over = FALSE]
              ELSE IF ev.region = "quit" THEN [g EXCEPT !.running = FALSE]
              ELSE g
         ELSE IF ev.button = 3 THEN [g EXCEPT !.player.aiming = TRUE]
         ELSE g
    ELSE IF ev.type = "MOUSEBUTTONUP"
    THEN IF ~g.game_over /\ ev.button = 3 /\ g.player.aiming
         THEN [g EXCEPT !.player =
                   Player_start_shooting([g.player EXCEPT !.aiming = FALSE])]
         ELSE g
    ELSE g

\* One event of handle_events' loop, on the round g (with g.running).
HandleEvent(g, ev) ==
    IF ev.type = "QUIT" THEN [g EXCEPT !.running = FALSE]
    ELSE IF ev.type = "MOUSEBUTTONDOWN"
    THEN IF g.game_over
         THEN IF ev.region = "try_again" THEN init_game
              ELSE IF ev.region = "quit" THEN [g EXCEPT !.running = FALSE]
              ELSE g
         ELSE IF ev.button = 3 THEN [g EXCEPT !.player.aiming = TRUE]
         ELSE g
    ELSE IF ev.type = "MOUSEBUTTONUP"
    THEN IF ~g.game_over /\ ev.button = 3 /\ g.player.aiming
         THEN [g EXCEPT !.player =
                   Player_start_shooting([g.player EXCEPT !.aiming = FALSE])]
         ELSE g
    ELSE g

RECURSIVE HandleEventsFrom(_, _, _)
HandleEventsFrom(g, events, i) ==
    IF i > Len(events) THEN g
    ELSE HandleEventsFrom(HandleEvent(g, events[i]), events, i + 1)

\* Game.handle_events: the events of this frame, then the aim at the mouse.
Game_handle_events(g, events, mouse) ==
    LET h == HandleEventsFrom(g, events, 1)
    IN  IF ~h.game_over
        THEN [h EXCEPT !.player = update_aim(h.player, mouse[1], mouse[2])]
        ELSE h


---------------------------------------------------------------------------
(* The game: Game.run alternates handle_events and update.                 *)

\* The whole round state, as one record.
Round ==
    [player |-> player, enemy |-> enemy, player_bullets |-> player_bullets,
     enemy_bullets |-> enemy_bullets, game_over |-> game_over,
     show |-> show_hit_notification, timer |-> hit_notification_timer,
     running |-> running]

SetRound(g) ==
    /\ player' = g.player
    /\ enemy' = g.enemy
    /\ player_bullets' = g.player_bullets
    /\ enemy_bullets' = g.enemy_bullets
    /\ game_over' = g.game_over
    /\ show_hit_notification' = g.show
    /\ hit_notification_timer' = g.timer
    /\ running' = g.running

RoundIs(g) ==
    /\ player = g.player
    /\ enemy = g.enemy
    /\ player_bullets = g.player_bullets
    /\ enemy_bullets = g.enemy_bullets
    /\ game_over = g.game_over
    /\ show_hit_notification = g.show
    /\ hit_notification_timer = g.timer
    /\ running = g.running

\* Game.__init__: init_game, then the first frame.
Init ==
    /\ RoundIs(init_game)
    /\ pc = "events"
    /\ tick = 0
    /\ call = NoCall

\* The frames on which the user does something.
InputFrame == tick % InputEvery = 0

RightDown == [type |-> "MOUSEBUTTONDOWN", button |-> 3, region |-> "none"]
RightUp == [type |-> "MOUSEBUTTONUP", button |-> 3, region |-> "none"]
ClickTryAgain == [type |-> "MOUSEBUTTONDOWN", button |-> 1, region |-> "try_again"]
ClickQuit == [type |-> "MOUSEBUTTONDOWN", button |-> 1, region |-> "quit"]
WindowClose == [type |-> "QUIT", button |-> 0, region |-> "none"]

\* The event lists pygame.event.get() returns that the model draws from.
EventLists ==
    IF ~InputFrame THEN {<<>>}
    ELSE IF game_over
    THEN {<<>>, <<RightDown, RightUp>>, <<ClickTryAgain>>, <<ClickQuit>>,
          <<WindowClose>>}
    ELSE {<<>>, <<RightDown>>, <<RightUp>>, <<RightDown, RightUp>>}

\* The mouse positions the model draws from: on the player's row, to its
\* right or to its left, or on the player itself; between input frames the
\* mouse stays on the side the player aims at.
MousePositions ==
    IF InputFrame
    THEN {<<player.x + Px(100), player.y>>, <<player.x - Px(100), player.y>>,
          <<player.x, player.y>>}
    ELSE {<<player.x + Scaled(Px(100), player.aim_direction[1]),
            player.y + Scaled(Px(100), player.aim_direction[2])>>}

\* The keys held that the model draws from: a or d, on the first WalkFrames
\* input frames (and on any frame of the game-over screen).
KeySets ==
    IF game_over \/ (InputFrame /\ tick < WalkFrames * InputEvery)
    THEN {{}, {"a"}, {"d"}}
    ELSE {{}}

\* self.handle_events() in Game.run
HandleEvents(events, mouse) ==
    /\ pc = "events"
    /\ running
    /\ tick < MaxTicks
    /\ SetRound(Game_handle_events(Round, events, mouse))
    /\ pc' = "update"
    /\ UNCHANGED <<tick, call>>

\* self.update() in Game.run, and the loop's test of self.running
Update(keys, spawn) ==
    /\ pc = "update"
    /\ SetRound(Game_update(Round, keys, spawn))
    /\ pc' = IF running THEN "events" ELSE "done"
    /\ tick' = tick + 1
    /\ UNCHANGED call

Next ==
    \/ \E events \in EventLists, mouse \in MousePositions :
          HandleEvents(events, mouse)
    \/ \E keys \in KeySets :
          \E spawn \in SpawnPoints(move(player, PlayerCfg, KeysDx(keys), KeysDy(keys))) :
             Update(keys, spawn)

Spec == Init /\ [][Next]_vars


---------------------------------------------------------------------------
(* Unit harnesses: the methods of one object called directly.  call        *)
(* records the last call: the method (op), the object (who), what it       *)
(* returned (ret) and the object before the call (before).  In the         *)
(* reservoir harness a run of update_ammo calls counts as one call: before *)
(* is the object before the run and n the number of calls in it.  In the   *)
(* scheduler harness n counts the update_shooting calls since the burst    *)
(* began and emitted lists the bullets they created: the call (at) and the *)
(* bullet's place relative to its owner (dx, dy) and its direction (dir).  *)

Combatant(w) == IF w = "player" THEN player ELSE enemy
CfgOf(w) == IF w = "player" THEN PlayerCfg ELSE EnemyCfg

SetCombatant(w, c) ==
    IF w = "player" THEN player' = c /\ UNCHANGED enemy
    ELSE enemy' = c /\ UNCHANGED player

\* The charges the reservoir harness draws a segment from (1.0 is 200).
ChargeLevels == {0, 60, 80, 140, Full}

Reservoirs == [1..max_ammo -> ChargeLevels]

\* The reservoirs the scheduler harness starts from.
BurstReservoirs ==
    {<<Full, Full, Full>>, <<Full, 100, 0>>, <<Full, 0, 0>>,
     <<80, 60, 60>>, <<80, 60, 0>>, <<0, 0, 0>>}

InitUnit(w, ammo) ==
    /\ RoundIs([init_game EXCEPT
                  !.player = IF w = "player" THEN [@ EXCEPT !.ammo = ammo] ELSE @,
                  !.enemy = IF w = "enemy" THEN [@ EXCEPT !.ammo = ammo] ELSE @])
    /\ pc = "unit"
    /\ tick = 0
    /\ call = [NoCall EXCEPT !.op = "new", !.who = w,
                              !.before = [Combatant(w) EXCEPT !.ammo = ammo]]

\* who.consume_ammo(), before the run of update_ammo calls
CallConsumeAmmo ==
    LET c == Combatant(call.who)
        r == consume_ammo(c.ammo)
    IN  /\ pc = "unit"
        /\ call.op # "update_ammo"
        /\ SetCombatant(call.who, [c EXCEPT !.ammo = r.ammo])
        /\ call' = [call EXCEPT !.op = "consume_ammo", !.before = c,
                                !.ret = r.ok, !.n = 0]
        /\ UNCHANGED <<player_bullets, enemy_bullets, game_over, running,
                       show_hit_notification, hit_notification_timer, pc, tick>>

\* who.update_ammo(), until the reservoir has been full for two calls
CallUpdateAmmo ==
    LET c == Combatant(call.who)
        first == call.op # "update_ammo"
    IN  /\ pc = "unit"
        /\ \/ first
           \/ FirstNotFull(c.ammo) # 0
           \/ Sum(call.before.ammo) + call.n < max_ammo * Full + 2
        /\ SetCombatant(call.who,
               [c EXCEPT !.ammo = update_ammo(c.ammo, c.is_recharging)])
        /\ call' = [call EXCEPT !.op = "update_ammo",
                                !.before = IF first THEN c ELSE @,
                                !.ret = TRUE,
                                !.n = IF first THEN 1 ELSE @ + 1]
        /\ UNCHANGED <<player_bullets, enemy_bullets, game_over, running,
                       show_hit_notification, hit_notification_timer, pc, tick>>

InitReservoir == \E w \in {"player", "enemy"}, ammo \in Reservoirs : InitUnit(w, ammo)

NextReservoir == CallConsumeAmmo \/ CallUpdateAmmo

\* consume_ammo and update_ammo called in any order on any reservoir.
SpecReservoir == InitReservoir /\ [][NextReservoir]_vars


---------------------------------------------------------------------------
(* The scheduler harness: start_shooting, update_shooting, update_ammo and *)
(* update_aim of one combatant, called in any order; update_shooting only  *)
(* while shooting, as its two callers do.  tick counts the update_ammo     *)
(* calls.                                                                  *)

BulletsOf(w) == IF w = "player" THEN player_bullets ELSE enemy_bullets

SetBullets(w, bs) ==
    IF w = "player" THEN player_bullets' = bs /\ UNCHANGED enemy_bullets
    ELSE enemy_bullets' = bs /\ UNCHANGED player_bullets

\* who.start_shooting()
CallStartShooting ==
    LET w == call.who
        c == Combatant(w)
        s == IF w = "player" THEN Player_start_shooting(c)
             ELSE Enemy_start_shooting(c)
        began == ~c.shooting /\ s.shooting
    IN  /\ pc = "unit"
        /\ SetCombatant(w, s)
        /\ call' = [call EXCEPT !.op = "start_shooting", !.before = c,
                                !.ret = TRUE,
                                !.n = IF began THEN 0 ELSE @,
                                !.emitted = IF began THEN <<>> ELSE @]
        /\ UNCHANGED <<player_bullets, enemy_bullets, game_over, running,
                       show_hit_notification, hit_notification_timer, pc, tick>>

\* who.update_shooting(bullets, ...) with an empty list of bullets
CallUpdateShooting ==
    LET w == call.who
        c == Combatant(w)
        r == IF w = "player" THEN Player_update_shooting(c, <<>>)
             ELSE Enemy_update_shooting(c, <<>>)
        new == [k \in 1..Len(r.bullets) |->
                  [at |-> call.n + 1, dx |-> r.bullets[k].x - c.x,
                   dy |-> r.bullets[k].y - c.y, dir |-> r.bullets[k].direction]]
    IN  /\ pc = "unit"
        /\ c.shooting
        /\ SetCombatant(w, r.c)
        /\ SetBullets(w, r.bullets)
        /\ call' = [call EXCEPT !.op = "update_shooting", !.before = c,
                                !.ret = TRUE, !.n = @ + 1,
                                !.emitted = @ \o new]
        /\ UNCHANGED <<game_over, running, show_hit_notification,
                       hit_notification_timer, pc, tick>>

\* who.update_ammo(), as one of the scheduler harness's calls
CallUpdateAmmoTick ==
    LET w == call.who
        c == Combatant(w)
    IN  /\ pc = "unit"
        /\ tick < MaxAmmoCalls
        /\ SetCombatant(w, [c EXCEPT !.ammo = update_ammo(c.ammo, c.is_recharging)])
        /\ call' = [call EXCEPT !.op = "update_ammo", !.before = c, !.ret = TRUE]
        /\ tick' = tick + 1
        /\ UNCHANGED <<player_bullets, enemy_bullets, game_over, running,
                       show_hit_notification, hit_notification_timer, pc>>

\* who.update_aim(...) at a point to the right or to the left of who
CallUpdateAim(side) ==
    LET w == call.who
        c == Combatant(w)
    IN  /\ pc = "unit"
        /\ SetCombatant(w, update_aim(c, c.x + side * Px(100), c.y))
        /\ call' = [call EXCEPT !.op = "update_aim", !.before = c, !.ret = TRUE]
        /\ UNCHANGED <<player_bullets, enemy_bullets, game_over, running,
                       show_hit_notification, hit_notification_timer, pc, tick>>

InitBurst ==
    \E w \in {"player", "enemy"}, ammo \in BurstReservoirs : InitUnit(w, ammo)

NextBurst ==
    \/ CallStartShooting
    \/ CallUpdateShooting
    \/ CallUpdateAmmoTick
    \/ \E side \in {-1, 1} : CallUpdateAim(side)

SpecBurst == InitBurst /\ [][NextBurst]_vars

---------------------------------------------------------------------------
(* The bullet harness: one Bullet of the player's configuration            *)
(* (speed 10, max_distance 300), updated as Game.update does, for as long  *)
(* as it is active.  It is the only element of player_bullets; tick counts *)
(* its update calls.                                                       *)

\* Where the harness's bullet starts.
BulletStartsX == {Px(30), Px(200), Px(400), Px(770)}
BulletStartsY == {Px(30), Px(300)}

\* The unit vectors it flies along: the axes, and (+-8/17, +-15/17) and
\* (+-15/17, +-8/17), what update_aim and start_shooting make of a mouse at
\* (8k, 15k) or (15k, 8k) from the player.
AxisDirections == {<<17, 0>>, <<-17, 0>>, <<0, 17>>, <<0, -17>>}
ObliqueDirections ==
    {<<sx * 8, sy * 15>> : sx \in {-1, 1}, sy \in {-1, 1}}
        \cup {<<sx * 15, sy * 8>> : sx \in {-1, 1}, sy \in {-1, 1}}

\* The sign of the error of the distance Bullet.update computes: none on an
\* axis; off the axes each sign occurs, for some direction and start.
Roundings(direction) ==
    IF direction \in AxisDirections THEN {0} ELSE {-1, 0, 1}

TheBullet == player_bullets[1]

InitBullet ==
    \E x \in BulletStartsX, y \in BulletStartsY,
       direction \in AxisDirections \cup ObliqueDirections :
       \E r \in Roundings(direction) :
          /\ RoundIs([init_game EXCEPT !.player_bullets =
                 <<[NewBullet(x, y, direction, PlayerCfg) EXCEPT !.rounding = r]>>])
          /\ pc = "unit"
          /\ tick = 0
          /\ call = [NoCall EXCEPT !.op = "Bullet"]

\* bullet.update(self.width, self.height), on a bullet still in the list
CallBulletUpdate ==
    /\ pc = "unit"
    /\ TheBullet.active
    /\ tick < MaxBulletUpdates
    /\ player_bullets' = <<Bullet_update(TheBullet)>>
    /\ tick' = tick + 1
    /\ call' = [call EXCEPT !.op = "Bullet_update"]
    /\ UNCHANGED <<player, enemy, enemy_bullets, game_over, running,
                   show_hit_notification, hit_notification_timer, pc>>

NextBullet == CallBulletUpdate

SpecBullet == InitBullet /\ [][NextBullet]_vars

---------------------------------------------------------------------------
(* The damage harness: Enemy.take_damage called on the enemy of a new      *)
(* round, with the game's damage (10) and two others.  tick counts the     *)
(* calls; call.n is the damage of the last one.                            *)

Damages == {1, GameCfg.player_bullet_damage, 30}

InitDamage ==
    /\ RoundIs(init_game)
    /\ pc = "unit"
    /\ tick = 0
    /\ call = [NoCall EXCEPT !.op = "new", !.who = "enemy", !.before = NewEnemy]

\* enemy.take_damage(damage)
CallTakeDamage(damage) ==
    LET r == Enemy_take_damage(enemy, damage)
    IN  /\ pc = "unit"
        /\ tick < MaxDamageCalls
        /\ enemy' = r.c
        /\ tick' = tick + 1
        /\ call' = [call EXCEPT !.op = "take_damage", !.before = enemy,
                                !.ret = r.is_dead, !.n = damage]
        /\ UNCHANGED <<player, player_bullets, enemy_bullets, game_over, running,
                       show_hit_notification, hit_notification_timer, pc>>

NextDamage == \E damage \in Damages : CallTakeDamage(damage)

SpecDamage == InitDamage /\ [][NextDamage]_vars

---------------------------------------------------------------------------
(* The collision harness: the two bullet loops of Game.update, each run on *)
(* a list of up to MaxBullets bullets placed around its target: the        *)
(* player's bullets fly to the right at the enemy, the enemy's to the left *)
(* at the player.  call.before is the round before the loop ran.           *)

\* Where a bullet is after its advance, relative to the centre of its
\* target (radius 30): outside, on the circle, inside; on the row and off it.
PlacesAroundTarget ==
    {<<Px(35), 0>>, <<Px(30), 0>>, <<Px(29), 0>>, <<0, 0>>,
     <<Px(18), Px(24)>>, <<Px(24), Px(17)>>}

\* A bullet of owner w that its next advance brings to place pl from the
\* centre of target; if spent, that advance is also the end of its range.
BulletAt(w, target, pl, spent) ==
    LET direction == IF w = "player" THEN <<17, 0>> ELSE <<-17, 0>>
        cfg == CfgOf(w)
        x == target.x + pl[1] - Scaled(cfg.bullet_speed, direction[1])
        y == target.y + pl[2]
        flown == IF spent THEN cfg.indicator_length - cfg.bullet_speed ELSE 0
    IN  [NewBullet(x, y, direction, cfg) EXCEPT
            !.start_x = x - Scaled(flown, direction[1])]

\* The bullets of owner w the harness draws from: around the target, one of
\* them spent; for the player also one that ends up where the enemy can
\* respawn.
BulletsAround(w, target) ==
    {BulletAt(w, target, pl, FALSE) : pl \in PlacesAroundTarget}
        \cup {BulletAt(w, target, <<0, 0>>, TRUE)}
        \cup (IF w = "player"
              THEN {BulletAt(w, [x |-> Px(width) - EnemyCfg.radius, y |-> target.y],
                             <<0, 0>>, FALSE)}
              ELSE {})

BulletLists(w, target) ==
    UNION {[1..n -> BulletsAround(w, target)] : n \in 0..MaxBullets}

\* The enemy where it stops, 240 from the player, about to die or not; the
\* player about to die or not.
InitHit ==
    \E w \in {"player", "enemy"}, eh \in {EnemyCfg.max_health, 10},
       ph \in {PlayerMaxHealth, 1} :
       LET p == [NewPlayer EXCEPT !.health = ph]
           e == [NewEnemy EXCEPT !.x = p.x + Px(240), !.health = eh]
       IN  \E bs \in BulletLists(w, IF w = "player" THEN e ELSE p) :
              /\ RoundIs([init_game EXCEPT
                     !.player = p, !.enemy = e,
                     !.player_bullets = IF w = "player" THEN bs ELSE <<>>,
                     !.enemy_bullets = IF w = "enemy" THEN bs ELSE <<>>])
              /\ pc = "unit"
              /\ tick = 0
              /\ call = [NoCall EXCEPT !.op = "new", !.who = w]

\* "for bullet in self.player_bullets[:]: ..." of Game.update
CallPlayerBulletLoop(spawn) ==
    LET r == PlayerBulletsFrom(player_bullets, 1, <<>>, enemy, player, spawn)
    IN  /\ pc = "unit"
        /\ call.who = "player"
        /\ tick < MaxLoopRuns
        /\ player_bullets' = r.bullets
        /\ enemy' = r.enemy
        /\ tick' = tick + 1
        /\ call' = [call EXCEPT !.op = "player_bullets", !.before = Round]
        /\ UNCHANGED <<player, enemy_bullets, game_over, running,
                       show_hit_notification, hit_notification_timer, pc>>

\* "for bullet in self.enemy_bullets[:]: ..." of Game.update
CallEnemyBulletLoop ==
    LET r == EnemyBulletsFrom(enemy_bullets, 1, <<>>,
                 [player |-> player, bullets |-> <<>>,
                  show |-> show_hit_notification,
                  timer |-> hit_notification_timer, game_over |-> game_over])
    IN  /\ pc = "unit"
        /\ call.who = "enemy"
        /\ tick < MaxLoopRuns
        /\ ~game_over
        /\ enemy_bullets' = r.bullets
        /\ player' = r.player
        /\ show_hit_notification' = r.show
        /\ hit_notification_timer' = r.timer
        /\ game_over' = r.game_over
        /\ tick' = tick + 1
        /\ call' = [call EXCEPT !.op = "enemy_bullets", !.before = Round]
        /\ UNCHANGED <<enemy, player_bullets, running, pc>>

NextHit ==
    \/ \E spawn \in SpawnPoints(player) : CallPlayerBulletLoop(spawn)
    \/ CallEnemyBulletLoop

SpecHit == InitHit /\ [][NextHit]_vars

---------------------------------------------------------------------------
(* Claims about the ammo reservoir, checked under SpecReservoir.           *)

\* The reservoir as the last call left it, and as it was before the call.
AmmoNow == Combatant(call.who).ammo
AmmoBefore == call.before.ammo

Segments == 1..max_ammo

C2_ConsumeBelowOneFails ==
    (call.op = "consume_ammo" /\ Sum(AmmoBefore) < Full) =>
        ~call.ret /\ AmmoNow = AmmoBefore

\* C2 witness: consume_ammo has been refused on 0.4, 0.3, 0.0.
C2_Witness ==
    /\ call.op = "consume_ammo"
    /\ AmmoBefore = <<80, 60, 0>>
    /\ ~call.ret
    /\ AmmoNow = <<80, 60, 0>>

\* What one update_ammo call with recharging enabled may do to reservoir b,
\* leaving a: the lowest segment below 1.0 gains the rate, up to 1.0, and
\* nothing else changes.
OneRechargeTick(b, a) ==
    LET gained == {i \in Segments : a[i] > b[i]}
    IN  /\ Cardinality(gained) <= 1
        /\ \A i \in Segments \ gained : a[i] = b[i]
        /\ \A i \in gained :
              /\ b[i] < Full
              /\ \A k \in Segments : k < i => b[k] = Full
              /\ a[i] = (IF b[i] + ammo_recharge_rate > Full THEN Full
                         ELSE b[i] + ammo_recharge_rate)
        /\ (\E i \in Segments : b[i] < Full) => gained # {}

\* What a run of n update_ammo calls has done to the segment that was the
\* lowest one below 1.0 when the run began: it has n times the rate more, and
\* is exactly 1.0 once that reaches 1.0; until then no higher segment changed.
RechargeRunSoFar ==
    \A i \in Segments :
        (AmmoBefore[i] < Full /\ \A k \in Segments : k < i => AmmoBefore[k] = Full)
        => /\ call.n * ammo_recharge_rate >= Full - AmmoBefore[i] => AmmoNow[i] = Full
           /\ call.n * ammo_recharge_rate < Full - AmmoBefore[i] =>
                 /\ AmmoNow[i] = AmmoBefore[i] + call.n * ammo_recharge_rate
                 /\ \A j \in Segments : j > i => AmmoNow[j] = AmmoBefore[j]

\* C3: one update_ammo call with recharging enabled raises at most one
\* segment, the lowest one below 1.0, by the rate and clamps it at 1.0; a
\* higher segment gains only once every lower one is exactly 1.0; an empty
\* segment is exactly 1.0 after N calls with N * rate >= 1.0.
C3_RechargeLowestFirst ==
    [][call'.op = "update_ammo" =>
          /\ OneRechargeTick(Combatant(call.who).ammo, Combatant(call.who)'.ammo)
          /\ RechargeRunSoFar']_vars

\* C3 witness: 200 calls have brought an empty first segment to exactly 1.0,
\* the other two still empty.
C3_Witness ==
    /\ call.op = "update_ammo"
    /\ AmmoBefore = <<0, 0, 0>>
    /\ call.n = 200
    /\ AmmoNow = <<Full, 0, 0>>


---------------------------------------------------------------------------
(* Claims about the burst scheduler, checked under SpecBurst.              *)

\* The object the last call was made on, now and before that call.
Caller == Combatant(call.who)

\* The side of the burst's direction a bullet was created on: negative is
\* the left column (offset_factor -0.5), positive the right one.
Lateral(em) == em.dx * (-em.dir[2]) + em.dy * em.dir[1]

LeftColumn == {k \in 1..Len(call.emitted) : Lateral(call.emitted[k]) < 0}
RightColumn == {k \in 1..Len(call.emitted) : Lateral(call.emitted[k]) > 0}

\* The update_shooting call (counted from the start of the burst) that
\* created the first bullet of a column.
FirstSpawn(column) ==
    CHOOSE t \in 1..call.n :
        /\ \E k \in column : call.emitted[k].at = t
        /\ \A k \in column : call.emitted[k].at >= t

\* The enemy's burst is over: update_shooting has run since it began and has
\* emptied the queue.
EnemyBurstOver == call.who = "enemy" /\ call.n > 0 /\ ~enemy.shooting

\* C5: a burst of the enemy (bullet_count 12, bullet_delay 10, column_offset
\* 15) creates exactly 12 bullets, 6 in the left column and 6 in the right
\* one, never more on the way, and the first bullet of the right column is
\* created exactly 5 update_shooting calls after the first of the left one.
C5_TwelveShotsTwoColumns ==
    /\ call.who = "enemy" =>
          /\ Len(call.emitted) <= 12
          /\ Cardinality(LeftColumn) <= 6
          /\ Cardinality(RightColumn) <= 6
    /\ EnemyBurstOver =>
          /\ Len(call.emitted) = 12
          /\ Cardinality(LeftColumn) = 6
          /\ Cardinality(RightColumn) = 6
          /\ FirstSpawn(RightColumn) = FirstSpawn(LeftColumn) + 5

\* C5 witness: an enemy burst has run to its end, its last bullet created by
\* the 56th update_shooting call.
C5_Witness ==
    /\ EnemyBurstOver
    /\ call.op = "update_shooting"
    /\ Len(call.emitted) = 12
    /\ call.emitted[12].at = 56

\* C6: start_shooting on a player or an enemy that is already shooting
\* changes nothing of the object (ammo, fire queue, shooting, is_recharging,
\* attack_cooldown), and no fire queue ever holds more than bullet_count
\* shots.
C6_NoOverlappingBursts ==
    /\ (call.op = "start_shooting" /\ call.before.shooting) => Caller = call.before
    /\ Len(player.bullet_queue) <= PlayerCfg.bullet_count
    /\ Len(enemy.bullet_queue) <= EnemyCfg.bullet_count

\* C6 witness: start_shooting has been called in the middle of a burst, with
\* a full segment left and shots still queued.
C6_Witness ==
    /\ call.op = "start_shooting"
    /\ call.before.shooting
    /\ has_ammo(call.before.ammo)
    /\ Len(Caller.bullet_queue) \in 1..(CfgOf(call.who).bullet_count - 1)

\* C7: start_shooting on an object at rest whose reservoir has no full
\* segment changes nothing: the reservoir is as it was, the fire queue is
\* empty, shooting is false and recharging is enabled.
C7_NoFullSegmentNoBurst ==
    (/\ call.op = "start_shooting"
     /\ ~call.before.shooting
     /\ ~has_ammo(call.before.ammo))
    => /\ Caller = call.before
       /\ Caller.bullet_queue = <<>>
       /\ ~Caller.shooting
       /\ Caller.is_recharging

\* C7 witness: start_shooting has been called on a reservoir of 0.4, 0.3,
\* 0.3: an aggregate of 1.0 but no full segment.
C7_Witness ==
    /\ call.op = "start_shooting"
    /\ ~call.before.shooting
    /\ call.before.ammo = <<80, 60, 60>>
    /\ Caller.ammo = <<80, 60, 60>>

---------------------------------------------------------------------------
(* Claims about a bullet's life, checked under SpecBullet.                 *)

\* C8: a bullet with max_distance 300 and speed 10 that flies in a straight
\* line and stays on the screen is active after each of its first 29 update
\* calls and inactive after the 30th, having flown exactly 300.
C8_InactiveOnThirtiethUpdate ==
    (call.op = "Bullet_update" /\ ~OffScreen(TheBullet)) =>
        /\ tick <= 30
        /\ tick < 30 => TheBullet.active
        /\ tick = 30 =>
              /\ ~TheBullet.active
              /\ DistanceTraveledSq(TheBullet) = Px(300) * Px(300)

\* What holds of such a bullet instead: it is inactive after its 30th or its
\* 31st update call, never before the 30th.
C8_InactiveOnThirtiethOrNext ==
    (call.op = "Bullet_update" /\ ~OffScreen(TheBullet)) =>
        /\ tick <= 31
        /\ tick < 30 => TheBullet.active
        /\ tick = 31 => ~TheBullet.active
        /\ (tick = 30 /\ TheBullet.direction \in AxisDirections) => ~TheBullet.active

\* A bullet flying along (8/17, 15/17) from (200, 300) has had 30 update
\* calls and is still active, 300 from its start.
C8_StillActiveAfterThirty ==
    /\ call.op = "Bullet_update"
    /\ tick = 30
    /\ TheBullet.active
    /\ TheBullet.direction = <<8, 15>>
    /\ TheBullet.start_x = Px(200) /\ TheBullet.start_y = Px(300)
    /\ DistanceTraveledSq(TheBullet) = Px(300) * Px(300)


---------------------------------------------------------------------------
(* Claims about the game, checked under Spec.                              *)

\* init_game has just replaced the round's objects (Try Again).
Restarted == game_over /\ ~game_over'

NoSegmentGains(before, after) ==
    \A i \in Segments : after.ammo[i] <= before.ammo[i]

\* C4: over a step of the game that finds a combatant shooting (its burst
\* begun by an earlier start_shooting, its fire queue not yet emptied), no
\* segment of that combatant's reservoir gains charge; the step in which the
\* queue empties is one of them.
C4_NoRechargeMidBurst ==
    [][~Restarted =>
          /\ player.shooting => NoSegmentGains(player, player')
          /\ enemy.shooting => NoSegmentGains(enemy, enemy')]_vars

\* C4 witness: both combatants are in the middle of a burst, each with a
\* segment below 1.0 and part of its queue already fired.
C4_Witness ==
    /\ player.shooting /\ enemy.shooting
    /\ Len(player.bullet_queue) \in 1..6
    /\ Len(enemy.bullet_queue) \in 1..6
    /\ ~player.is_recharging /\ ~enemy.is_recharging
    /\ \E i \in Segments : player.ammo[i] < Full
    /\ \E i \in Segments : enemy.ammo[i] < Full

\* C9: while the round is on, the update that brings the player's health to
\* 0 sets game_over; and game_over is set only by an update that brings the
\* player's health to 0 with a hit (which arms the hit notification).
C9_GameOverWhenPlayerDies ==
    [][/\ (~game_over /\ player.health > 0 /\ player'.health <= 0) => game_over'
       /\ (~game_over /\ game_over') =>
             /\ pc = "update"
             /\ player.health > 0 /\ player'.health = 0
             /\ show_hit_notification'
             /\ hit_notification_timer' = GameCfg.hit_notification_duration]_vars

\* C9 witness: the round has just ended, the player's health at 0 and the
\* hit notification armed.
C9_Witness ==
    /\ game_over
    /\ player.health = 0
    /\ show_hit_notification
    /\ hit_notification_timer = GameCfg.hit_notification_duration
    /\ pc = "events"

\* C10: a step that begins and ends with game_over set changes nothing of
\* the round: neither combatant (position, aim, aiming, reservoir, fire
\* queue, shooting, cooldown, health), neither list of bullets, nor the hit
\* notification and its timer.
C10_GameOverFreezesRound ==
    [][(game_over /\ game_over') =>
          UNCHANGED <<player, enemy, player_bullets, enemy_bullets,
                      show_hit_notification, hit_notification_timer>>]_vars

\* C10 witness: the game-over screen has been up to the last frame, with
\* bullets of the enemy still in the air.
C10_Witness ==
    /\ game_over
    /\ tick = MaxTicks
    /\ Len(enemy_bullets) > 0
    /\ pc = "events"


\* The round with the player's aim set back to its default: handle_events
\* points the aim at the mouse in the call that restarts, as it does on the
\* first frame of the game.
RoundButAim == [Round EXCEPT !.player.aim_direction = NewPlayer.aim_direction]

\* C11: the step that restarts from the game-over screen leaves the round
\* that init_game makes at the start of the game: player at (width/4,
\* height/2), enemy at (3*width/4, height/2) with health 100, both reservoirs
\* full, both fire queues empty, nobody shooting, cooldown 0, both bullet
\* lists empty, game_over false, hit notification off and its timer 0.
C11_RestartIsInitialStart ==
    [][Restarted =>
          /\ RoundButAim' = init_game
          /\ player'.x = Px(200) /\ player'.y = Px(300)
          /\ enemy'.x = Px(600) /\ enemy'.y = Px(300)
          /\ enemy'.health = 100 /\ enemy'.attack_cooldown = 0
          /\ player'.ammo = <<Full, Full, Full>> /\ enemy'.ammo = <<Full, Full, Full>>
          /\ player'.bullet_queue = <<>> /\ enemy'.bullet_queue = <<>>
          /\ ~player'.shooting /\ ~enemy'.shooting
          /\ player_bullets' = <<>> /\ enemy_bullets' = <<>>
          /\ ~show_hit_notification' /\ hit_notification_timer' = 0]_vars

\* C11 witness: a round restarted after the player's death, before its first
\* update (without a restart the enemy has moved by then).
C11_Witness ==
    /\ tick > 0
    /\ pc = "update"
    /\ RoundButAim = init_game


---------------------------------------------------------------------------
(* Claims about damage, checked under SpecDamage.                          *)

\* C12: Enemy.take_damage(d) leaves health at health - d, or at 0 where that
\* is negative, and returns True exactly when the health it leaves is 0; so
\* two hits of 10 on health 100 leave 80 and both return False.
C12_TakeDamage ==
    call.op = "take_damage" =>
        /\ call.before.health - call.n >= 0 => enemy.health = call.before.health - call.n
        /\ call.before.health - call.n < 0 => enemy.health = 0
        /\ call.ret <=> enemy.health = 0
        /\ enemy.health >= 0
        /\ (tick = 2 /\ call.n = 10 /\ call.before.health = 90) =>
              enemy.health = 80 /\ ~call.ret
        /\ [enemy EXCEPT !.health = call.before.health] = call.before

\* C12 witness: the tenth hit of 10 on health 100 has brought the health to
\* exactly 0 and returned True.
C12_Witness ==
    /\ call.op = "take_damage"
    /\ tick = 10
    /\ call.n = 10
    /\ call.before.health = 10
    /\ enemy.health = 0
    /\ call.ret

---------------------------------------------------------------------------
(* Claims about the collision loops of Game.update, checked under SpecHit. *)

\* The bullets of a list after "bullet.update(...)"
Advanced(bs) == [i \in 1..Len(bs) |-> Bullet_update(bs[i])]

\* b is nearer than radius to c
Within(b, c, radius) ==
    (b.x - c.x) * (b.x - c.x) + (b.y - c.y) * (b.y - c.y) < radius * radius

\* The bullets of bs that, advanced, are active and nearer than radius to c
HitsAt(bs, c, radius) ==
    {i \in 1..Len(bs) :
        Advanced(bs)[i].active /\ Within(Advanced(bs)[i], c, radius)}

\* The last run of the player-bullet loop brought the enemy's health to 0.
EnemyDied ==
    /\ call.op = "player_bullets"
    /\ call.before.enemy.health <=
           GameCfg.player_bullet_damage *
               Cardinality(HitsAt(call.before.player_bullets,
                                  call.before.enemy, EnemyCfg.radius))

---------------------------------------------------------------------------
(* The attack harness: Enemy.move_towards_target and Enemy.update called   *)
(* as Game.update calls them, on an enemy to the right of a player who     *)
(* stands still, from any of the harness's reservoirs and cooldowns.       *)

\* How far from the player the enemy starts, in pixels: in range, on the
\* edge of the range, and out of it by one step and by three.
AttackDistances == {200, 240, 243, 249}

AttackCooldowns == {0, 1, 2}

\* Where the enemy starts from the player: to the right, on the player's
\* row, at each of AttackDistances; and down and to the right along (8, 15),
\* 14 * 17 = 238 pixels away or 16 * 17 = 272.
AttackOffsets ==
    {<<Px(d), 0>> : d \in AttackDistances}
        \cup {<<Px(8 * k), Px(15 * k)>> : k \in {14, 16}}

InitAttack ==
    \E off \in AttackOffsets, ammo \in BurstReservoirs, cd \in AttackCooldowns :
       LET e == [NewEnemy EXCEPT !.x = NewPlayer.x + off[1],
                                 !.y = NewPlayer.y + off[2], !.ammo = ammo,
                                 !.attack_cooldown = cd]
       IN  /\ RoundIs([init_game EXCEPT !.enemy = e])
           /\ pc = "move"
           /\ tick = 0
           /\ call = [NoCall EXCEPT !.op = "new", !.who = "enemy", !.before = e]

\* "self.enemy.move_towards_target(self.width, self.height)" of Game.update
CallMoveTowardsTarget ==
    /\ pc = "move"
    /\ tick < MaxEnemyUpdates
    /\ enemy' = Enemy_move_towards_target(enemy, player)
    /\ pc' = "update"
    /\ call' = [call EXCEPT !.op = "move_towards_target", !.before = enemy]
    /\ UNCHANGED <<player, player_bullets, enemy_bullets, game_over, running,
                   show_hit_notification, hit_notification_timer, tick>>

\* "self.enemy.update(self.enemy_bullets, ...)" of Game.update; the bullets
\* it emits are recorded and the list is left empty.
CallEnemyUpdate ==
    LET r == Enemy_update(enemy, player, <<>>)
    IN  /\ pc = "update"
        /\ enemy' = r.c
        /\ pc' = "move"
        /\ tick' = tick + 1
        /\ call' = [call EXCEPT !.op = "update", !.before = enemy,
                                !.n = Len(r.bullets)]
        /\ UNCHANGED <<player, player_bullets, enemy_bullets, game_over, running,
                       show_hit_notification, hit_notification_timer>>

NextAttack == CallMoveTowardsTarget \/ CallEnemyUpdate

SpecAttack == InitAttack /\ [][NextAttack]_vars

\* The last call was an Enemy.update in which the enemy started a burst.
BurstStartedInUpdate ==
    call.op = "update" /\ ~call.before.shooting /\ enemy.shooting

\* C14: whenever the enemy starts a burst inside Enemy.update, at that point
\* (after the update's recharge and cooldown decrement) it was not shooting,
\* its reservoir held at least 1.0 in total, the target was no farther than
\* attack_range - radius - target.radius = 240, and attack_cooldown was <= 0;
\* the start sets attack_cooldown to 60.
C14_BurstStartConditions ==
    BurstStartedInUpdate =>
        LET b == call.before
            ammo == update_ammo(b.ammo, b.is_recharging)
            cooldown == IF b.attack_cooldown > 0 THEN b.attack_cooldown - 1
                        ELSE b.attack_cooldown
        IN  /\ ~b.shooting
            /\ Sum(ammo) >= Full
            /\ (player.x - b.x) * (player.x - b.x)
                 + (player.y - b.y) * (player.y - b.y) <= Px(240) * Px(240)
            /\ cooldown <= 0
            /\ enemy.attack_cooldown = 60
            /\ Sum(enemy.ammo) = Sum(ammo) - Full

\* The second burst of an enemy in range: started by the update that brought
\* the cooldown of the first from 1 to 0.
C14_Witness ==
    /\ BurstStartedInUpdate
    /\ tick = 61
    /\ call.before.attack_cooldown = 1
    /\ enemy.attack_cooldown = 60
    /\ enemy.x = player.x + Px(240)


---------------------------------------------------------------------------
(* The movement harness: Player.move, Enemy.move and respawn_enemy called  *)
(* in any order on one combatant that stands on or near a border of the    *)
(* screen, where the walk from its initial position (by steps of speed) or *)
(* a respawn (at any integer point) can have brought it.                   *)

\* Columns and rows the player's steps of 5 reach from (200, 300)
PlayerStartsX == {Px(30), Px(35), Px(200), Px(770)}
PlayerStartsY == {Px(30), Px(300), Px(565), Px(570)}

\* Columns and rows a respawn can put the enemy on
EnemyStartsX == {Px(30), Px(31), Px(600), Px(770)}
EnemyStartsY == {Px(30), Px(300), Px(568), Px(570)}

InitMove ==
    \E w \in {"player", "enemy"},
       px \in PlayerStartsX, py \in PlayerStartsY,
       ex \in EnemyStartsX, ey \in EnemyStartsY :
       /\ RoundIs([init_game EXCEPT !.player.x = px, !.player.y = py,
                                   !.enemy.x = ex, !.enemy.y = ey])
       /\ pc = "unit"
       /\ tick = 0
       /\ call = [NoCall EXCEPT !.op = "new", !.who = w]

\* who.move(dx, dy, width, height), each of dx, dy being 0 or who's speed
\* either way
CallMove(dx, dy) ==
    LET w == call.who
        c == Combatant(w)
    IN  /\ pc = "unit"
        /\ tick < MaxMoves
        /\ SetCombatant(w, move(c, CfgOf(w), dx * CfgOf(w).speed, dy * CfgOf(w).speed))
        /\ tick' = tick + 1
        /\ call' = [call EXCEPT !.op = "move", !.before = c,
                                !.emitted = <<dx * CfgOf(w).speed, dy * CfgOf(w).speed>>]
        /\ UNCHANGED <<player_bullets, enemy_bullets, game_over, running,
                       show_hit_notification, hit_notification_timer, pc>>

\* respawn_enemy()
CallRespawn(spawn) ==
    /\ pc = "unit"
    /\ call.who = "enemy"
    /\ tick < MaxMoves
    /\ enemy' = respawn_enemy(enemy, spawn)
    /\ tick' = tick + 1
    /\ call' = [call EXCEPT !.op = "respawn_enemy", !.before = enemy]
    /\ UNCHANGED <<player, player_bullets, enemy_bullets, game_over, running,
                   show_hit_notification, hit_notification_timer, pc>>

NextMove ==
    \/ \E dx \in {-1, 0, 1}, dy \in {-1, 0, 1} : CallMove(dx, dy)
    \/ \E spawn \in SpawnPoints(player) : CallRespawn(spawn)

SpecMove == InitMove /\ [][NextMove]_vars

InScreen(c, cfg) ==
    /\ cfg.radius <= c.x /\ c.x <= Px(width) - cfg.radius
    /\ cfg.radius <= c.y /\ c.y <= Px(height) - cfg.radius

\* C16: after any sequence of move calls and enemy respawns both combatants
\* are inside the screen (radius <= x <= width - radius, radius <= y <=
\* height - radius); a move applies its x change exactly when the new x is
\* inside, and its y change exactly when the new y is inside, each whatever
\* becomes of the other.
C16_StaysInScreen ==
    /\ InScreen(player, PlayerCfg)
    /\ InScreen(enemy, EnemyCfg)
    /\ call.op = "move" =>
          LET b == call.before
              c == Combatant(call.who)
              r == CfgOf(call.who).radius
              new_x == b.x + call.emitted[1]
              new_y == b.y + call.emitted[2]
          IN  /\ c.x = IF r <= new_x /\ new_x <= Px(width) - r THEN new_x ELSE b.x
              /\ c.y = IF r <= new_y /\ new_y <= Px(height) - r THEN new_y ELSE b.y
              /\ [c EXCEPT !.x = b.x, !.y = b.y] = b

\* A diagonal step of the enemy from column 31, three to the left and three
\* up: the x change is dropped, the y change applied.
C16_Witness ==
    /\ call.op = "move" /\ call.who = "enemy"
    /\ call.emitted = <<-Px(3), -Px(3)>>
    /\ call.before.x = Px(31)
    /\ enemy.x = Px(31)
    /\ enemy.y = call.before.y - Px(3)


\* The bullets of bs that are left in the list by a loop whose target c
\* stays where it is: advanced, active and not nearer than radius.
Survivors(bs, c, radius) ==
    LET Keep(b) == b.active /\ ~Within(b, c, radius)
    IN  SelectSeq(Advanced(bs), Keep)

---------------------------------------------------------------------------
(* The notification harness: Game.update called tick after tick on a round *)
(* whose enemy has an empty reservoir and stands out of range, with enemy  *)
(* bullets in flight that reach the player on chosen ticks.  call.n counts *)
(* the Playing ticks since the last hit, call.ret says there has been one. *)

\* The ticks on which a bullet in flight reaches the player
ArrivalTicks == {1, 2, 12, 26}

\* The enemy bullet that hits the player on tick k: its k-th advance brings
\* it to 25 pixels from the player's centre.
ArrivingOn(k) ==
    NewBullet(NewPlayer.x + Px(25 + 10 * k), NewPlayer.y, <<-17, 0>>, EnemyCfg)

RECURSIVE InFlight(_, _)
InFlight(ticks, k) ==
    IF k > 26 THEN <<>>
    ELSE (IF k \in ticks THEN <<ArrivingOn(k)>> ELSE <<>>) \o InFlight(ticks, k + 1)

InitNotice ==
    \E ticks \in SUBSET ArrivalTicks, ph \in {PlayerMaxHealth, 2} :
       /\ RoundIs([init_game EXCEPT !.player.health = ph,
                                   !.enemy.ammo = <<0, 0, 0>>,
                                   !.enemy_bullets = InFlight(ticks, 1)])
       /\ pc = "update"
       /\ tick = 0
       /\ call = [NoCall EXCEPT !.op = "new", !.who = "game"]

\* self.update() with no key held
UpdateNotice ==
    LET g == Game_update(Round, {}, <<EnemyCfg.radius, EnemyCfg.radius>>)
        hit == g.player.health < player.health
    IN  /\ pc = "update"
        /\ tick < MaxNoticeTicks
        /\ SetRound(g)
        /\ tick' = tick + 1
        /\ call' = [call EXCEPT !.op = "update", !.before = Round,
                                !.ret = @ \/ hit,
                                !.n = IF hit THEN 0
                                      ELSE IF game_over THEN @ ELSE @ + 1]
        /\ UNCHANGED pc

NextNotice == UpdateNotice

SpecNotice == InitNotice /\ [][NextNotice]_vars

\* C18: a hit of an enemy bullet on the player sets show_hit_notification
\* and arms hit_notification_timer to 30; on each Playing tick without a hit
\* the timer of a shown notification goes down by one, and the notification
\* is shown for the 29 such ticks after the hit and cleared on the 30th.
C18_HitNotification ==
    call.op = "update" =>
        LET b == call.before
            hit == player.health < b.player.health
        IN  /\ hit => show_hit_notification /\ hit_notification_timer = 30
            /\ (~hit /\ b.show /\ ~b.game_over) =>
                  /\ hit_notification_timer = b.timer - 1
                  /\ show_hit_notification <=> hit_notification_timer > 0
            /\ (~hit /\ (~b.show \/ b.game_over)) =>
                  /\ hit_notification_timer = b.timer
                  /\ show_hit_notification = b.show
            /\ show_hit_notification <=> (call.ret /\ call.n < 30)
            /\ show_hit_notification => hit_notification_timer = 30 - call.n

\* The notification of the hit on tick 12 is cleared on tick 42, thirty
\* ticks later, having been shown on tick 41.
C18_Witness ==
    /\ call.op = "update"
    /\ tick = 42
    /\ call.ret /\ call.n = 30
    /\ call.before.show /\ call.before.timer = 1
    /\ ~show_hit_notification
    /\ hit_notification_timer = 0
    /\ ~game_over

---------------------------------------------------------------------------
(* Further claims about the fire scheduler, checked under SpecBurst.       *)

\* C19: for the player and for the enemy, after every start_shooting and
\* update_shooting call (and so at every tick boundary), the shooting flag
\* is true exactly when the fire queue is non-empty.
C19_ShootingIffQueued ==
    /\ player.shooting <=> player.bullet_queue # <<>>
    /\ enemy.shooting <=> enemy.bullet_queue # <<>>

\* The update_shooting call that emits the last shot of the player's burst
\* empties the queue and clears the flag.
C19_Witness ==
    /\ call.op = "update_shooting" /\ call.who = "player"
    /\ call.before.shooting /\ Len(call.before.bullet_queue) = 1
    /\ ~player.shooting /\ player.bullet_queue = <<>>


\* C20 as stated: no entry whose remaining delay is 0 survives an
\* update_shooting call.
C20_NoZeroDelaySurvives ==
    call.op = "update_shooting" =>
        \A j \in 1..Len(Caller.bullet_queue) : Caller.bullet_queue[j].delay # 0

\* C20, amended: update_shooting emits and removes the shots it finds with a
\* delay <= 0 and decrements only the others, so a shot whose delay a call
\* brings to 0 stays queued and is emitted by the next call.  Through a
\* burst: the shot queued with column delay d is emitted by update_shooting
\* call d + 1, and after n calls every shot still queued has d - n >= 0 left.
C20_EmittedByCallAfterDelay ==
    call.who \in {"player", "enemy"} =>
        LET c == Caller
            cfg == CfgOf(call.who)
            D(i) == cfg.bullet_delay * (i \div 2)
                    + (IF i % 2 = 0 THEN 0 ELSE cfg.bullet_delay \div 2)
            done == Len(call.emitted)
        IN  /\ \A k \in 1..done : call.emitted[k].at = D(k - 1) + 1
            /\ \A j \in 1..Len(c.bullet_queue) :
                  /\ c.bullet_queue[j].delay = D(done + j - 1) - call.n
                  /\ c.bullet_queue[j].delay >= 0
            /\ call.op = "update_shooting" =>
                  /\ Len(c.bullet_queue) =
                        Cardinality({k \in 1..Len(call.before.bullet_queue) :
                                        call.before.bullet_queue[k].delay > 0})
                  /\ \A j \in 1..Len(c.bullet_queue) :
                        c.bullet_queue[j].delay = 0 <=>
                            call.before.bullet_queue[
                                Len(call.before.bullet_queue)
                                    - Len(c.bullet_queue) + j].delay = 1

\* The player's second shot (column delay 2) after two update_shooting
\* calls: still queued, with a remaining delay of 0, one bullet emitted.
C20_Witness ==
    /\ call.op = "update_shooting" /\ call.who = "player"
    /\ call.n = 2
    /\ Len(call.emitted) = 1
    /\ Len(player.bullet_queue) = 11
    /\ player.bullet_queue[1].delay = 0
    /\ call.before.bullet_queue[1].delay = 1

---------------------------------------------------------------------------
(* The tick-order harness: whole Game.update calls on a round whose enemy  *)
(* stands in range of the player, about to die or not, with bullets of the *)
(* player around it.  call.before is the round before the call and         *)
(* call.emitted holds the point respawn_enemy would draw.                  *)

\* Lists of up to two bullets of the player around the enemy e
OrderLists(e) == UNION {[1..n -> BulletsAround("player", e)] : n \in 0..2}

InitOrder ==
    \E eh \in {EnemyCfg.max_health, 10}, cd \in {0, 5}, firing \in BOOLEAN :
       LET p == IF firing THEN Player_start_shooting(NewPlayer) ELSE NewPlayer
           e == [NewEnemy EXCEPT !.x = p.x + Px(240), !.health = eh,
                                 !.attack_cooldown = cd]
       IN  \E bs \in OrderLists(e) :
              /\ RoundIs([init_game EXCEPT !.player = p, !.enemy = e,
                                          !.player_bullets = bs])
              /\ pc = "update"
              /\ tick = 0
              /\ call = [NoCall EXCEPT !.op = "new", !.who = "game"]

\* self.update() with no key held or with d held
UpdateOrder(keys, spawn) ==
    /\ pc = "update"
    /\ tick < MaxOrderTicks
    /\ SetRound(Game_update(Round, keys, spawn))
    /\ tick' = tick + 1
    /\ call' = [call EXCEPT !.op = "update", !.before = Round,
                            !.emitted = <<spawn>>]
    /\ UNCHANGED pc

NextOrder ==
    \E keys \in {{}, {"d"}} :
       \E spawn \in SpawnPoints(move(player, PlayerCfg, KeysDx(keys), KeysDy(keys))) :
          UpdateOrder(keys, spawn)

SpecOrder == InitOrder /\ [][NextOrder]_vars

---------------------------------------------------------------------------
(* Claims about the order of the steps of Game.update, under SpecOrder.    *)

\* The last Game.update was a Playing tick in which hits of the player's
\* bullets brought the enemy's health to 0.
EnemyDiedInTick ==
    /\ call.op = "update"
    /\ ~call.before.game_over
    /\ call.before.enemy.health <=
           GameCfg.player_bullet_damage *
               Cardinality(HitsAt(call.before.player_bullets,
                                  call.before.enemy, EnemyCfg.radius))

\* Before the last Game.update the enemy was free to attack: not shooting,
\* a full segment, the cooldown over by the time of its decision.
EnemyWasReady ==
    /\ ~call.before.enemy.shooting
    /\ \E i \in 1..max_ammo : call.before.enemy.ammo[i] >= Full
    /\ call.before.enemy.attack_cooldown <= 1
    /\ (player.x - call.before.enemy.x) * (player.x - call.before.enemy.x)
         + (player.y - call.before.enemy.y) * (player.y - call.before.enemy.y)
         <= Px(240) * Px(240)

---------------------------------------------------------------------------
(* Further claims about the ammo reservoir.                                *)

\* C22: for the player and for the enemy, after any sequence of consume_ammo
\* and update_ammo calls every segment's charge lies in [0.0, 1.0] and the
\* aggregate charge in [0, 3].
C22_ChargeInRange ==
    \A w \in {"player", "enemy"} :
        LET ammo == Combatant(w).ammo
        IN  /\ Len(ammo) = 3
            /\ \A i \in 1..3 : 0 <= ammo[i] /\ ammo[i] <= Full
            /\ 0 <= ammo[1] + ammo[2] + ammo[3]
            /\ ammo[1] + ammo[2] + ammo[3] <= 3 * Full

\* consume_ammo has drained 0.3, 0.4, 0.3 across three segments to nothing.
C22_Witness ==
    /\ call.op = "consume_ammo" /\ call.ret
    /\ call.before.ammo[3] = 60 /\ call.before.ammo[2] = 80
    /\ Combatant(call.who).ammo[1] = 0
    /\ call.before.ammo[1] = 60


---------------------------------------------------------------------------
(* The round-trip harness: one consume_ammo on any reservoir, then, if it  *)
(* succeeded, update_ammo tick after tick until the reservoir has been     *)
(* full for MaxIdleTicks calls.  call.before stays the combatant before    *)
(* the consume_ammo; call.n counts the update_ammo calls.                  *)

InitRoundTrip ==
    \E w \in {"player", "enemy"}, ammo \in Reservoirs : InitUnit(w, ammo)

\* who.consume_ammo(), once
CallConsumeOnce ==
    LET c == Combatant(call.who)
        r == consume_ammo(c.ammo)
    IN  /\ pc = "unit"
        /\ call.op = "new"
        /\ SetCombatant(call.who, [c EXCEPT !.ammo = r.ammo])
        /\ call' = [call EXCEPT !.op = "consume_ammo", !.before = c,
                                !.ret = r.ok, !.n = 0]
        /\ UNCHANGED <<player_bullets, enemy_bullets, game_over, running,
                       show_hit_notification, hit_notification_timer, pc, tick>>

\* who.update_ammo(), after a consume_ammo that succeeded
CallRechargeTick ==
    LET c == Combatant(call.who)
    IN  /\ pc = "unit"
        /\ call.op \in {"consume_ammo", "update_ammo"}
        /\ call.ret
        /\ call.n < 1 + max_ammo * Full - Sum(call.before.ammo) + MaxIdleTicks
                      + Full \div ammo_recharge_rate
        /\ SetCombatant(call.who,
               [c EXCEPT !.ammo = update_ammo(c.ammo, c.is_recharging)])
        /\ call' = [call EXCEPT !.op = "update_ammo", !.n = @ + 1]
        /\ UNCHANGED <<player_bullets, enemy_bullets, game_over, running,
                       show_hit_notification, hit_notification_timer, pc, tick>>

NextRoundTrip == CallConsumeOnce \/ CallRechargeTick

SpecRoundTrip == InitRoundTrip /\ [][NextRoundTrip]_vars

---------------------------------------------------------------------------
(* Claims about the bullet lists of the game, checked under Spec.          *)

\* C24: at the end of every tick every bullet in player_bullets and in
\* enemy_bullets is active: a bullet that its advance or a hit made inactive
\* has left its list in that same Game.update, and none comes back.
C24_ListsHoldActiveBullets ==
    /\ \A k \in 1..Len(player_bullets) : player_bullets[k].active
    /\ \A k \in 1..Len(enemy_bullets) : enemy_bullets[k].active

\* One burst of the player has been fired and is over, no bullet of it hit
\* the enemy, and none is left in the list.
C24_Witness ==
    /\ tick = 80
    /\ pc = "events"
    /\ player_bullets = <<>>
    /\ ~player.shooting
    /\ player.ammo[2] = Full /\ player.ammo[3] < Full
    /\ enemy.health = 100
    /\ ~game_over


---------------------------------------------------------------------------
(* The bounds harness: Bullet.update called on one bullet created a few    *)
(* steps from a border of the screen, and called on after the bullet has   *)
(* gone inactive.  call.before is the bullet before the call.              *)

\* Where an owner near a border creates a bullet
BoundsStartsX == {Px(30), Px(400), Px(770)}
BoundsStartsY == {Px(30), Px(32), Px(300), Px(568), Px(570)}

InitBounds ==
    \E x \in BoundsStartsX, y \in BoundsStartsY,
       direction \in AxisDirections \cup ObliqueDirections :
       /\ RoundIs([init_game EXCEPT !.player_bullets =
                     <<NewBullet(x, y, direction, PlayerCfg)>>])
       /\ pc = "unit"
       /\ tick = 0
       /\ call = [NoCall EXCEPT !.op = "Bullet", !.before = NewBullet(x, y, direction, PlayerCfg)]

\* bullet.update(self.width, self.height), whether the bullet is active or not
CallBulletUpdateOn ==
    /\ pc = "unit"
    /\ tick < MaxBoundsUpdates
    /\ player_bullets' = <<Bullet_update(TheBullet)>>
    /\ tick' = tick + 1
    /\ call' = [call EXCEPT !.op = "Bullet_update", !.before = TheBullet]
    /\ UNCHANGED <<player, enemy, enemy_bullets, game_over, running,
                   show_hit_notification, hit_notification_timer, pc>>

NextBounds == CallBulletUpdateOn

SpecBounds == InitBounds /\ [][NextBounds]_vars

\* C25: the update call after which x < -width or x > screen_width + width
\* or y < -height or y > screen_height + height (width 20, height 8)
\* deactivates the bullet; an update that leaves an active bullet inside
\* that padded rectangle, its border included, and short of its range
\* leaves it active; an inactive bullet stays inactive.
C25_PaddedBounds ==
    call.op = "Bullet_update" =>
        LET b == TheBullet
            out == \/ b.x < -Px(20) \/ b.x > Px(800) + Px(20)
                   \/ b.y < -Px(8) \/ b.y > Px(600) + Px(8)
            flown == (b.x - b.start_x) * (b.x - b.start_x)
                       + (b.y - b.start_y) * (b.y - b.start_y)
        IN  /\ (call.before.active /\ out) => ~b.active
            /\ (call.before.active /\ ~out /\ flown < Px(300) * Px(300)) => b.active
            /\ ~call.before.active => ~b.active

\* A bullet flying to the right from x = 770: still active on the padded
\* border at x = 820, inactive one update later at x = 830.
C25_Witness ==
    /\ call.op = "Bullet_update"
    /\ call.before.x = Px(820) /\ call.before.active
    /\ TheBullet.x = Px(830) /\ ~TheBullet.active


---------------------------------------------------------------------------
(* Claims about bursts in the running game, checked under Spec.  Between   *)
(* ticks the last shot of a queue tells how many update_shooting calls the *)
(* burst has had, one per tick from the tick it started in.                *)

\* column_delay of shot i (from 0), as the claim gives it
DelayOf(cfg, i) ==
    cfg.bullet_delay * (i \div 2) + (IF i % 2 = 1 THEN cfg.bullet_delay \div 2 ELSE 0)

\* The update_shooting calls shooting combatant c has had in its burst
CallsMade(c, cfg) ==
    DelayOf(cfg, 11) - c.bullet_queue[Len(c.bullet_queue)].delay

\* The bullets of a list created in the tick that has just ended: they have
\* been advanced once.
Fresh(bs) ==
    {k \in 1..Len(bs) : DistanceTraveledSq(bs[k]) = Px(10) * Px(10)}

\* Bullet b was created in the left column of c's burst.
InLeftColumn(b, c) ==
    (b.start_x - c.x) * (-b.direction[2]) + (b.start_y - c.y) * b.direction[1] < 0

\* After n calls the queue of c holds, in index order, the shots with
\* column delay n or more, each with its column delay less n left.
QueueOnSchedule(c, cfg) ==
    c.shooting =>
        LET q == c.bullet_queue
            n == CallsMade(c, cfg)
            first == 12 - Len(q)
        IN  /\ n >= 0
            /\ Len(q) = Cardinality({i \in 0..11 : DelayOf(cfg, i) >= n})
            /\ \A j \in 1..Len(q) : q[j].delay = DelayOf(cfg, first + j - 1) - n

\* What the Game.update of a Playing tick does to the burst of c (c2 after
\* it, bs2 its bullet list after it): the tick that is n ticks after the
\* start tick emits exactly the shots with column delay n, even ones in the
\* left column and odd ones in the right.
TickOfBurst(c, c2, cfg, bs2) ==
    /\ c.shooting =>
          LET n == CallsMade(c, cfg)
              due == {i \in 0..11 : DelayOf(cfg, i) = n}
          IN  /\ Cardinality(Fresh(bs2)) = Cardinality(due)
              /\ \A k \in Fresh(bs2), i \in due :
                    InLeftColumn(bs2[k], c2) <=> i % 2 = 0
              /\ c2.shooting => CallsMade(c2, cfg) = n + 1
              /\ ~c2.shooting <=> n = DelayOf(cfg, 11)
    /\ (~c.shooting /\ c2.shooting) =>
          /\ Cardinality(Fresh(bs2)) = 1
          /\ \A k \in Fresh(bs2) : InLeftColumn(bs2[k], c2)
          /\ CallsMade(c2, cfg) = 1

\* C26: for a burst started in tick T, shot i is emitted in tick
\* T + bullet_delay * (i div 2) + (bullet_delay div 2 if i is odd): shot 0 in
\* the start tick, the shots in index order alternating left and right, each
\* right-column shot 2 ticks (player) or 5 ticks (enemy) after its partner.
C26_ShotTicks ==
    /\ \A j \in 0..5 :
          /\ DelayOf(PlayerCfg, 2 * j + 1) - DelayOf(PlayerCfg, 2 * j) = 2
          /\ DelayOf(EnemyCfg, 2 * j + 1) - DelayOf(EnemyCfg, 2 * j) = 5
    /\ [](QueueOnSchedule(player, PlayerCfg) /\ QueueOnSchedule(enemy, EnemyCfg))
    /\ [][(pc = "update" /\ ~game_over) =>
             /\ TickOfBurst(player, player', PlayerCfg, player_bullets')
             /\ TickOfBurst(enemy, enemy', EnemyCfg, enemy_bullets')]_vars

\* Two ticks after the tick its burst started in, the player has just
\* emitted shot 1, the first of the right column.
C26_Witness ==
    /\ pc = "events"
    /\ player.shooting
    /\ CallsMade(player, PlayerCfg) = 3
    /\ Len(player.bullet_queue) = 10
    /\ \E k \in Fresh(player_bullets) : ~InLeftColumn(player_bullets[k], player)


---------------------------------------------------------------------------
(* The volley harness: the game from init_game, the user pressing and      *)
(* releasing the right button on some of the frames of VolleyClicks, no    *)
(* key held.                                                               *)
(* call.before remembers, for each combatant, the frame its latest burst   *)
(* started in and the frame it ended in (-1 when there is none).           *)

\* The frames on which the right button may be used: the first, the frame
\* after the one a burst started on the first ends in, and a later one.
VolleyClicks == {0, 28, 60}

NoBursts == [started |-> [player |-> -1, enemy |-> -1],
             ended |-> [player |-> -1, enemy |-> -1]]

\* The record of bursts after a step from combatants p, e to p2, e2 in frame t
BurstsAfter(h, p, e, p2, e2, t) ==
    LET started(c, c2, w) == IF ~c.shooting /\ c2.shooting THEN t ELSE h.started[w]
        ended(c, c2, w) == IF c.shooting /\ ~c2.shooting THEN t ELSE h.ended[w]
    IN  [started |-> [player |-> started(p, p2, "player"),
                      enemy |-> started(e, e2, "enemy")],
         ended |-> [player |-> ended(p, p2, "player"),
                    enemy |-> ended(e, e2, "enemy")]]

InitVolley ==
    /\ RoundIs(init_game)
    /\ pc = "events"
    /\ tick = 0
    /\ call = [NoCall EXCEPT !.op = "new", !.who = "game", !.before = NoBursts]

\* self.handle_events() in Game.run, the mouse to the right of the player
VolleyEvents(events) ==
    /\ pc = "events"
    /\ tick < MaxVolleyTicks
    /\ LET g == Game_handle_events(Round, events,
                                   <<player.x + Px(100), player.y>>)
       IN  /\ SetRound(g)
           /\ call' = [call EXCEPT !.op = "handle_events",
                          !.before = BurstsAfter(call.before, player, enemy,
                                                 g.player, g.enemy, tick)]
    /\ pc' = "update"
    /\ UNCHANGED tick

\* self.update() in Game.run
VolleyUpdate(spawn) ==
    /\ pc = "update"
    /\ LET g == Game_update(Round, {}, spawn)
       IN  /\ SetRound(g)
           /\ call' = [call EXCEPT !.op = "update",
                          !.before = BurstsAfter(call.before, player, enemy,
                                                 g.player, g.enemy, tick)]
    /\ pc' = "events"
    /\ tick' = tick + 1

NextVolley ==
    \/ \E events \in (IF tick \in VolleyClicks THEN {<<>>, <<RightDown, RightUp>>}
                      ELSE {<<>>}) :
          VolleyEvents(events)
    \/ \E spawn \in SpawnPoints(player) : VolleyUpdate(spawn)

SpecVolley == InitVolley /\ [][NextVolley]_vars

\* A step of NextVolley is possible: Game.run is in its loop.
FrameDue == pc = "update" \/ tick < MaxVolleyTicks

\* Game.run keeps looping: weak fairness of the frame's step, which is
\* WF_vars(NextVolley) with ENABLED <<NextVolley>>_vars written as FrameDue
\* (every step of NextVolley changes pc).
FairSpecVolley ==
    SpecVolley /\ ([]<>(~FrameDue) \/ []<><<pc' # pc>>_vars)

\* Frames from the start frame of a burst to its end frame, as the claim
\* gives it
BurstTicks(cfg) ==
    cfg.bullet_delay * (cfg.bullet_count \div 2 - 1) + cfg.bullet_delay \div 2

\* The burst of combatant w is under way in a Playing round and has not
\* outlived its BurstTicks.
BurstInTime(w) ==
    (Combatant(w).shooting /\ ~game_over) =>
        /\ call.before.started[w] >= 0
        /\ tick - call.before.started[w]
              <= BurstTicks(CfgOf(w)) + (IF pc = "events" THEN 0 ELSE -1) + 1
        /\ ~Combatant(w).is_recharging

\* What a Playing self.update() does to the burst of w (c before it, c2 and
\* the bullet list bs2 after it)
BurstEndStep(w, c, c2, bs2) ==
    /\ (c.shooting /\ ~c2.shooting) =>
          /\ tick = call.before.started[w] + BurstTicks(CfgOf(w))
          /\ c2.is_recharging
          /\ Len(c2.bullet_queue) = 0
          /\ Fresh(bs2) # {}
    /\ (c.shooting /\ tick = call.before.started[w] + BurstTicks(CfgOf(w))) =>
          ~c2.shooting
    /\ (call.before.ended[w] = tick - 1 /\ tick > 0 /\ c.is_recharging) =>
          Sum(c2.ammo) = Sum(c.ammo) + ammo_recharge_rate
    /\ (call.before.ended[w] = tick - 1 /\ tick > 0 /\ w = "enemy") =>
          c.is_recharging

---------------------------------------------------------------------------
(* Claims about the reservoirs of the running game, checked under Spec.    *)

\* Full segments, then at most one partly charged segment, then empty ones
LeftPacked(ammo) ==
    \E full \in 0..Len(ammo) :
       /\ \A i \in 1..full : ammo[i] = Full
       /\ \A i \in (full + 2)..Len(ammo) : ammo[i] = 0
       /\ full < Len(ammo) => (0 <= ammo[full + 1] /\ ammo[full + 1] < Full)

\* C28: in every reachable game state each reservoir is left-packed (full
\* segments, then at most one partial segment, then empty ones); so has_ammo
\* is true exactly when the aggregate charge is at least 1.0, and the
\* consume_ammo call start_shooting makes after has_ammo never fails.
C28_LeftPacked ==
    \A w \in {"player", "enemy"} :
       LET ammo == Combatant(w).ammo IN
       /\ LeftPacked(ammo)
       /\ (\E i \in 1..Len(ammo) : ammo[i] >= Full) <=> Sum(ammo) >= Full
       /\ (\E i \in 1..Len(ammo) : ammo[i] >= Full) => consume_ammo(ammo).ok

\* The player's second burst has begun from a reservoir with a partial
\* third segment: the charge was taken across two segments and left a
\* partial second one.
C28_Witness ==
    /\ pc = "update"
    /\ player.shooting
    /\ Len(player.bullet_queue) = 12
    /\ player.ammo[1] = Full
    /\ 0 < player.ammo[2] /\ player.ammo[2] < Full
    /\ player.ammo[3] = 0


\* C29: for the player and the enemy, at every frame boundary (and between
\* handle_events and update) is_recharging = not shooting: recharging is off
\* throughout a burst and back on once the burst has ended.
C29_RechargingIffNotShooting ==
    \A w \in {"player", "enemy"} :
       Combatant(w).is_recharging = ~Combatant(w).shooting

\* At a frame boundary the player's burst is over and its reservoir is
\* recharging, while the enemy is in the middle of a burst.
C29_Witness ==
    /\ pc = "events"
    /\ ~player.shooting /\ player.is_recharging
    /\ Sum(player.ammo) < max_ammo * Full
    /\ enemy.shooting /\ ~enemy.is_recharging
    /\ Len(enemy.bullet_queue) \in 1..11


---------------------------------------------------------------------------
(* The enemy's cooldown in the frames of the volley harness.               *)

\* The enemy begins a burst in the step.
EnemyBurstBegins == ~enemy.shooting /\ enemy'.shooting

\* C30: the enemy's attack_cooldown always lies in 0..min_attack_cooldown;
\* a Playing frame takes exactly one off it while it is positive (and the
\* frame that takes it to 0 may set it to min_attack_cooldown again by
\* beginning a burst); any two consecutive bursts of the enemy begin at
\* least min_attack_cooldown (60) frames apart.
C30_Cooldown ==
    /\ EnemyCfg.min_attack_cooldown = 60
    /\ [](enemy.attack_cooldown \in 0..EnemyCfg.min_attack_cooldown)
    /\ [][(pc = "update" /\ ~game_over) =>
             /\ EnemyBurstBegins =>
                   /\ enemy.attack_cooldown <= 1
                   /\ enemy'.attack_cooldown = EnemyCfg.min_attack_cooldown
                   /\ \/ call.before.started["enemy"] = -1
                      \/ tick - call.before.started["enemy"]
                            >= EnemyCfg.min_attack_cooldown
             /\ ~EnemyBurstBegins =>
                   enemy'.attack_cooldown =
                      IF enemy.attack_cooldown > 0
                      THEN enemy.attack_cooldown - 1 ELSE 0]_vars

\* The enemy has just begun its second burst, 5 frames after its first
\* burst ended and so 60 frames after it began; the cooldown is at 60 again.
C30_Witness ==
    /\ pc = "events"
    /\ enemy.shooting
    /\ enemy.attack_cooldown = EnemyCfg.min_attack_cooldown
    /\ call.before.started["enemy"] = tick - 1
    /\ call.before.ended["enemy"] >= 0
    /\ call.before.started["enemy"]
          = call.before.ended["enemy"] - BurstTicks(EnemyCfg)
              + EnemyCfg.min_attack_cooldown


---------------------------------------------------------------------------
(* The siege harness: the enemy's part of Game.update, frame after frame   *)
(* without end, against a player that stands still in or near the enemy's  *)
(* range in a round that stays Playing.  The frame counter is left alone,  *)
(* so the enemy's states recur; the bullets emitted are discarded.         *)

\* The reservoirs the enemy starts with: left-packed, from full to empty
SiegeReservoirs ==
    {<<Full, Full, Full>>, <<Full, 100, 0>>, <<Full, 0, 0>>, <<60, 0, 0>>,
     <<0, 0, 0>>}

SiegeCooldowns == {0, 5}

InitSiege ==
    \E off \in AttackOffsets, ammo \in SiegeReservoirs, cd \in SiegeCooldowns :
       LET e == [NewEnemy EXCEPT !.x = NewPlayer.x + off[1],
                                 !.y = NewPlayer.y + off[2], !.ammo = ammo,
                                 !.attack_cooldown = cd]
       IN  /\ RoundIs([init_game EXCEPT !.enemy = e])
           /\ pc = "move"
           /\ tick = 0
           /\ call = [NoCall EXCEPT !.op = "new", !.who = "enemy"]

\* "self.enemy.move_towards_target(self.width, self.height)" of Game.update
SiegeMove ==
    /\ pc = "move"
    /\ enemy' = Enemy_move_towards_target(enemy, player)
    /\ pc' = "update"
    /\ UNCHANGED <<player, player_bullets, enemy_bullets, game_over, running,
                   show_hit_notification, hit_notification_timer, tick, call>>

\* "self.enemy.update(self.enemy_bullets, ...)" of Game.update; call.ret
\* tells whether the call began a burst and call.n how many bursts have
\* begun (2 standing for two or more).
SiegeUpdate ==
    LET r == Enemy_update(enemy, player, <<>>)
    IN  /\ pc = "update"
        /\ enemy' = r.c
        /\ pc' = "move"
        /\ call' = [call EXCEPT !.op = "update",
                                !.ret = (~enemy.shooting /\ r.c.shooting),
                                !.n = IF ~enemy.shooting /\ r.c.shooting /\ @ < 2
                                      THEN @ + 1 ELSE @]
        /\ UNCHANGED <<player, player_bullets, enemy_bullets, game_over,
                       running, show_hit_notification, hit_notification_timer,
                       tick>>

NextSiege == SiegeMove \/ SiegeUpdate

SpecSiege == InitSiege /\ [][NextSiege]_vars

\* Game.run keeps calling Game.update: weak fairness of the frame's steps,
\* which is WF_vars(NextSiege) with ENABLED <<NextSiege>>_vars written as
\* TRUE (a step is always possible and every step changes pc).
FairSpecSiege == SpecSiege /\ []<><<pc' # pc>>_vars

\* The player is within the enemy's attack range.
PlayerInRange ==
    (player.x - enemy.x) ^ 2 + (player.y - enemy.y) ^ 2
        <= (EnemyCfg.attack_range - EnemyCfg.radius - PlayerCfg.radius) ^ 2

\* The Enemy.update just made began a burst.
SiegeBurstBegan == call.op = "update" /\ call.ret /\ pc = "move"

\* C31: while the round stays Playing and the player stays within the
\* enemy's attack range from some frame on, the enemy begins a new burst
\* again and again: after every burst the reservoir recharges to a full
\* segment and the cooldown runs out.
C31_EnemyFiresAgain ==
    /\ []<>(SiegeBurstBegan \/ ~PlayerInRange \/ game_over)
    /\ (~enemy.shooting /\ PlayerInRange) ~> SiegeBurstBegan

\* The enemy has just begun a burst that is not its first, with its last
\* full segment: the reservoir had run down, recharging filled the segment
\* again and the cooldown had run out.
C31_Witness ==
    /\ SiegeBurstBegan
    /\ call.n = 2
    /\ PlayerInRange
    /\ Sum(enemy.ammo) = 0
    /\ enemy.attack_cooldown = EnemyCfg.min_attack_cooldown


---------------------------------------------------------------------------
(* Claims about the enemy's death and respawn inside Game.update, checked  *)
(* under SpecOrder.                                                        *)

\* C32: at every frame boundary the enemy's health is in 1..max_health, one
\* of 10, 20, ..., 100 with damage 10: a lethal hit is followed by the
\* respawn's reset of the health within the same frame, so health 0 is never
\* seen between frames.
C32_EnemyHealthPositive ==
    /\ enemy.health \in 1..EnemyCfg.max_health
    /\ enemy.health \in {GameCfg.player_bullet_damage * k : k \in 1..10}
    /\ EnemyDiedInTick => enemy.health > EnemyCfg.max_health - 2 * GameCfg.player_bullet_damage

\* A Game.update in which the enemy, at health 10, took a lethal hit: it
\* is one step from the respawn point with its health at 100.
C32_Witness ==
    /\ EnemyDiedInTick
    /\ call.before.enemy.health = 10
    /\ enemy.health = EnemyCfg.max_health
    /\ enemy.x - call.emitted[1][1] \in {-EnemyCfg.speed, EnemyCfg.speed}
    /\ enemy.x # call.before.enemy.x


---------------------------------------------------------------------------
(* The respawn harness: whole Game.update calls on a round whose enemy     *)
(* stands in range of an idle player, at some frame of a burst or idle,    *)
(* about to die or not, with bullets of the player around it.  call.before *)
(* is the round before the call, call.emitted the point respawn_enemy      *)
(* would draw.                                                             *)

\* The enemy e, idle, after the n-th frame of a burst it began (n >= 1):
\* update_shooting has been called n times, the cooldown was set in the
\* first of the frames.
MidBurst(e, n) ==
    LET b == Enemy_start_shooting(e)
        left == SelectSeq(b.bullet_queue, LAMBDA s : s.delay >= n)
    IN  [b EXCEPT !.bullet_queue = [k \in 1..Len(left) |->
                                      [left[k] EXCEPT !.delay = @ - n]],
                  !.attack_cooldown = EnemyCfg.min_attack_cooldown - (n - 1)]

\* Frames of its burst the enemy has had when the harness begins: none (it
\* is idle); the first; five or ten (a shot is due in the next); 55 (the
\* last shot is due in the next).
RespawnFrames == {0, 1, 5, 10, 55}

InitRespawn ==
    \E eh \in {EnemyCfg.max_health, 10}, n \in RespawnFrames :
       LET e0 == [NewEnemy EXCEPT !.x = NewPlayer.x + Px(240), !.health = eh]
           e == IF n = 0 THEN e0 ELSE MidBurst(e0, n)
       IN  \E bs \in OrderLists(e) :
              /\ RoundIs([init_game EXCEPT !.enemy = e, !.player_bullets = bs])
              /\ pc = "update"
              /\ tick = 0
              /\ call = [NoCall EXCEPT !.op = "new", !.who = "game"]

\* self.update() with no key held
UpdateRespawn(spawn) ==
    /\ pc = "update"
    /\ tick < MaxRespawnTicks
    /\ SetRound(Game_update(Round, {}, spawn))
    /\ tick' = tick + 1
    /\ call' = [call EXCEPT !.op = "update", !.before = Round,
                            !.emitted = <<spawn>>]
    /\ UNCHANGED pc

NextRespawn == \E spawn \in SpawnPoints(player) : UpdateRespawn(spawn)

SpecRespawn == InitRespawn /\ [][NextRespawn]_vars

\* The indices of queue q whose shot the next update_shooting emits, and
\* those it keeps
DueIn(q) == {k \in 1..Len(q) : q[k].delay <= 0}
KeptIn(q) == {k \in 1..Len(q) : q[k].delay > 0}

\* C33: respawn_enemy changes only the enemy's health and position.  In a
\* Game.update in which the enemy died, its reservoir, queue, shooting
\* flag, is_recharging and cooldown, and the player, end up as in a frame
\* without the death, and a burst that was in progress goes on: the shots
\* due are emitted from the new position.
C33_RespawnKeepsBurst ==
    EnemyDiedInTick =>
        LET b == call.before.enemy
            q == b.bullet_queue
            spawn == call.emitted[1]
            calm == Game_update([call.before EXCEPT !.player_bullets = <<>>],
                                {}, spawn)
        IN  /\ enemy.health \in {EnemyCfg.max_health,
                                 EnemyCfg.max_health - GameCfg.player_bullet_damage}
            /\ enemy.x - spawn[1] \in {-EnemyCfg.speed, EnemyCfg.speed}
            /\ enemy.y = spawn[2]
            /\ player = calm.player
            /\ enemy.attack_cooldown =
                  (IF b.attack_cooldown > 0 THEN b.attack_cooldown - 1 ELSE 0)
            /\ b.shooting =>
                  /\ enemy.ammo = b.ammo
                  /\ Len(enemy.bullet_queue) = Cardinality(KeptIn(q))
                  /\ \A j \in 1..Len(enemy.bullet_queue) :
                        LET k == Len(q) - Len(enemy.bullet_queue) + j
                        IN  enemy.bullet_queue[j] = [q[k] EXCEPT !.delay = @ - 1]
                  /\ enemy.shooting <=> KeptIn(q) # {}
                  /\ enemy.is_recharging <=> KeptIn(q) = {}
                  /\ Cardinality(Fresh(enemy_bullets)) = Cardinality(DueIn(q))
                  /\ \A i \in Fresh(enemy_bullets) :
                        \E k \in DueIn(q) :
                           /\ enemy_bullets[i].start_x = enemy.x + q[k].offset_x
                           /\ enemy_bullets[i].start_y = enemy.y + q[k].offset_y
                           /\ enemy_bullets[i].direction = q[k].dir
            /\ ~b.shooting =>
                  /\ ~enemy.shooting /\ enemy.is_recharging
                  /\ enemy.bullet_queue = <<>>
                  /\ Sum(enemy.ammo) =
                        (IF Sum(b.ammo) + ammo_recharge_rate > max_ammo * Full
                         THEN max_ammo * Full
                         ELSE Sum(b.ammo) + ammo_recharge_rate)

\* The enemy died five frames into its burst: the right-column shot due in
\* that frame was emitted from the respawn side of the screen and ten
\* shots are still queued.
C33_Witness ==
    /\ EnemyDiedInTick
    /\ call.before.enemy.shooting
    /\ Len(call.before.enemy.bullet_queue) = 11
    /\ Len(enemy.bullet_queue) = 10
    /\ enemy.shooting /\ ~enemy.is_recharging
    /\ enemy.x # call.before.enemy.x
    /\ \E i \in Fresh(enemy_bullets) :
          enemy_bullets[i].start_x = enemy.x + call.before.enemy.bullet_queue[1].offset_x


---------------------------------------------------------------------------
(* Claims about what a burst keeps of the moment it began, checked under   *)
(* Spec: the mouse changes sides and the player walks while bursts are in  *)
(* progress.                                                               *)

\* Shot s was laid out for a burst along aim: it flies along aim and its
\* offset is across it.
LaidAlong(s, aim) ==
    /\ s.dir = aim
    /\ s.offset_x * aim[1] + s.offset_y * aim[2] = 0
    /\ <<s.offset_x, s.offset_y>> # <<0, 0>>

\* Queue q2 is what is left of q: shots of q in their order, direction and
\* offset untouched.
SameShots(q, q2) ==
    /\ Len(q2) <= Len(q)
    /\ \A j \in 1..Len(q2) :
          LET s == q[Len(q) - Len(q2) + j]
          IN  /\ q2[j].dir = s.dir
              /\ q2[j].offset_x = s.offset_x
              /\ q2[j].offset_y = s.offset_y

\* The bullets of bs2 created in the frame are the shots of q that were due,
\* each at the position of c2 plus the shot's offset, flying along the
\* shot's direction.
EmittedFrom(q, c2, bs2) ==
    /\ Cardinality(Fresh(bs2)) = Cardinality(DueIn(q))
    /\ \A i \in Fresh(bs2) :
          \E k \in DueIn(q) :
             /\ bs2[i].start_x = c2.x + q[k].offset_x
             /\ bs2[i].start_y = c2.y + q[k].offset_y
             /\ bs2[i].direction = q[k].dir

\* C34: the direction and the lateral offset of every shot of a burst are
\* fixed when the burst starts: a change of aim_direction during the burst
\* changes no pending shot, and each bullet is created at its owner's
\* position in the frame of emission plus the shot's offset.
C34_ShotsFixedAtStart ==
    [][/\ (pc = "events" /\ ~game_over /\ player.shooting) =>
             player'.bullet_queue = player.bullet_queue
       /\ (pc = "events" /\ ~game_over /\ ~player.shooting /\ player'.shooting) =>
             \A j \in 1..Len(player'.bullet_queue) :
                LaidAlong(player'.bullet_queue[j], player.aim_direction)
       /\ (pc = "events" /\ ~game_over) => enemy' = enemy
       /\ (pc = "update" /\ ~game_over /\ player.shooting) =>
             /\ SameShots(player.bullet_queue, player'.bullet_queue)
             /\ EmittedFrom(player.bullet_queue, player', player_bullets')
       /\ (pc = "update" /\ ~game_over /\ enemy.shooting) =>
             /\ SameShots(enemy.bullet_queue, enemy'.bullet_queue)
             /\ EmittedFrom(enemy.bullet_queue, enemy', enemy_bullets')
       /\ (pc = "update" /\ ~game_over /\ ~enemy.shooting /\ enemy'.shooting) =>
             \A j \in 1..Len(enemy'.bullet_queue) :
                LaidAlong(enemy'.bullet_queue[j], enemy'.aim_direction)]_vars

\* The mouse has gone to the player's left 25 frames into a burst aimed to
\* the right: the aim has turned, the two shots still queued have not.
C34_Witness ==
    /\ pc = "update"
    /\ player.shooting
    /\ Len(player.bullet_queue) = 2
    /\ player.aim_direction = <<-17, 0>>
    /\ \A j \in 1..2 : player.bullet_queue[j].dir = <<17, 0>>


---------------------------------------------------------------------------
(* A bullet's last advance, checked under SpecHit.                         *)

\* Bullet b after "self.x += direction[0] * speed" and the same for y
Moved(b) ==
    [b EXCEPT !.x = @ + Scaled(b.speed, b.direction[1]),
              !.y = @ + Scaled(b.speed, b.direction[2])]

\* The advance of b takes it to the end of its range or outside the padded
\* bounds (the harness's bullets fly along the x axis, where the distance
\* flown is exact).
Expires(b) ==
    LET m == Moved(b)
    IN  \/ (m.x - m.start_x) * (m.x - m.start_x)
             + (m.y - m.start_y) * (m.y - m.start_y)
               >= m.max_distance * m.max_distance
        \/ m.x < -m.width \/ m.x > Px(width) + m.width
        \/ m.y < -m.height \/ m.y > Px(height) + m.height

\* The bullets of bs whose advance ends them
ExpiringIn(bs) == {k \in 1..Len(bs) : Expires(bs[k])}

\* The bullets of bs whose advance does not end them and brings them nearer
\* than radius to c
LiveHitsIn(bs, c, radius) ==
    {k \in 1..Len(bs) : ~Expires(bs[k]) /\ Within(Moved(bs[k]), c, radius)}

\* The bullets of bs that go on flying, advanced
FlyingOn(bs) ==
    LET Live(b) == ~Expires(b)
        live == SelectSeq(bs, Live)
    IN  [k \in 1..Len(live) |-> Moved(live[k])]

\* C35: a bullet whose advance brings distance_traveled to max_distance or
\* puts it outside the padded bounds is removed before that frame's
\* collision test: it deals no damage in the frame even when it ends nearer
\* than the radius to the opposing combatant.
C35_ExpiredBulletsDoNoDamage ==
    /\ call.op = "player_bullets" =>
          LET b == call.before IN
          /\ \A k \in 1..Len(player_bullets) : player_bullets[k].active
          /\ Len(player_bullets) <= Len(b.player_bullets)
                                      - Cardinality(ExpiringIn(b.player_bullets))
          /\ LiveHitsIn(b.player_bullets, b.enemy, EnemyCfg.radius) = {} =>
                /\ enemy = b.enemy
                /\ player_bullets = FlyingOn(b.player_bullets)
    /\ call.op = "enemy_bullets" =>
          LET b == call.before IN
          /\ \A k \in 1..Len(enemy_bullets) : enemy_bullets[k].active
          /\ Len(enemy_bullets) <= Len(b.enemy_bullets)
                                     - Cardinality(ExpiringIn(b.enemy_bullets))
          /\ LiveHitsIn(b.enemy_bullets, b.player, PlayerCfg.radius) = {} =>
                /\ player = b.player
                /\ enemy_bullets = FlyingOn(b.enemy_bullets)
                /\ show_hit_notification = b.show
                /\ game_over = b.game_over

\* A bullet of the player ended its range on the centre of an enemy at
\* health 10: it is gone from the list and the enemy is as it was.
C35_Witness ==
    /\ call.op = "player_bullets"
    /\ Len(call.before.player_bullets) = 1
    /\ Expires(call.before.player_bullets[1])
    /\ Moved(call.before.player_bullets[1]).x = call.before.enemy.x
    /\ Moved(call.before.player_bullets[1]).y = call.before.enemy.y
    /\ call.before.enemy.health = 10
    /\ enemy = call.before.enemy
    /\ player_bullets = <<>>


---------------------------------------------------------------------------
(* respawn_enemy's rejection loop: the player stands anywhere in the       *)
(* screen, the enemy has just died, and each pass of "while True" draws a  *)
(* point and keeps it or draws again.                                      *)

MaxSpawnRuns == 1
SpawnGridX == {30 + 185 * i : i \in 0..4}      \* 30, 215, 400, 585, 770
SpawnGridY == {30 + 135 * j : j \in 0..4}      \* 30, 165, 300, 435, 570

\* The four corners of the rectangle random.randint draws from
SpawnCorners ==
    {<<EnemyCfg.radius, EnemyCfg.radius>>,
     <<Px(width) - EnemyCfg.radius, EnemyCfg.radius>>,
     <<EnemyCfg.radius, Px(height) - EnemyCfg.radius>>,
     <<Px(width) - EnemyCfg.radius, Px(height) - EnemyCfg.radius>>}

\* The points the model's random.randint draws: the corners, the middle of
\* the rectangle and the middles of its sides (all of them whole pixels).
SpawnDraws ==
    SpawnCorners
      \cup {<<Px(400), Px(300)>>, <<Px(400), EnemyCfg.radius>>,
            <<Px(400), Px(height) - EnemyCfg.radius>>,
            <<EnemyCfg.radius, Px(300)>>,
            <<Px(width) - EnemyCfg.radius, Px(300)>>}

InitSpawn ==
    \E x \in SpawnGridX, y \in SpawnGridY :
       /\ RoundIs([init_game EXCEPT
                     !.player = [NewPlayer EXCEPT !.x = Px(x), !.y = Px(y)],
                     !.enemy = [NewEnemy EXCEPT !.health = 0]])
       /\ pc = "respawn"
       /\ tick = 0
       /\ call = [NoCall EXCEPT !.op = "new", !.who = "game"]

\* One pass of respawn_enemy's loop, its random point being s; call.n counts
\* the points rejected (up to 2).
SpawnDraw(s) ==
    /\ pc = "respawn"
    /\ IF FarEnough(s[1], s[2], player)
       THEN /\ enemy' = respawn_enemy(enemy, s)
            /\ pc' = "placed"
            /\ call' = [call EXCEPT !.op = "respawn_enemy", !.ret = TRUE]
       ELSE /\ enemy' = [enemy EXCEPT !.health = EnemyCfg.max_health]
            /\ pc' = "respawn"
            /\ call' = [call EXCEPT !.op = "respawn_enemy", !.ret = FALSE,
                                    !.n = IF @ < 2 THEN @ + 1 ELSE @]
    /\ UNCHANGED <<player, player_bullets, enemy_bullets, game_over, running,
                   show_hit_notification, hit_notification_timer, tick>>

\* The player walks a step and the enemy dies again.
SpawnKill(keys) ==
    /\ pc = "placed"
    /\ tick < MaxSpawnRuns
    /\ player' = move(player, PlayerCfg, KeysDx(keys), KeysDy(keys))
    /\ enemy' = [enemy EXCEPT !.health = 0]
    /\ pc' = "respawn"
    /\ tick' = tick + 1
    /\ call' = [NoCall EXCEPT !.op = "take_damage", !.who = "enemy"]
    /\ UNCHANGED <<player_bullets, enemy_bullets, game_over, running,
                   show_hit_notification, hit_notification_timer>>

NextSpawn ==
    \/ \E s \in SpawnDraws : SpawnDraw(s)
    \/ \E keys \in {{"a"}, {"d"}, {"w"}, {"s"}, {"a", "w"}, {"d", "s"}} :
          SpawnKill(keys)

SpecSpawn == InitSpawn /\ [][NextSpawn]_vars

\* A point that is far enough and can be drawn again and again is drawn in
\* the end: random.randint gives every point of its range the same chance on
\* every pass.
FairSpecSpawn ==
    SpecSpawn /\ \A s \in SpawnCorners :
                    SF_vars(SpawnDraw(s) /\ pc' = "placed")

\* The player is within the limits move() keeps it to
PlayerInBounds ==
    /\ player.x >= PlayerCfg.radius /\ player.x <= Px(width) - PlayerCfg.radius
    /\ player.y >= PlayerCfg.radius
    /\ player.y <= Px(height) - PlayerCfg.radius

---------------------------------------------------------------------------
(* The standalone variant: the Player and Game classes of main.py.  There  *)
(* is no enemy, no ammo and no health: enemy, enemy_bullets, game_over and *)
(* the hit notification keep their first values, and player_bullets is     *)
(* Game.bullets.                                                           *)

MaxMainTicks == 36

\* Player.__init__ in main.py as called by Game.__init__: the fields that
\* never change.  indicator_length is the value draw_aim_indicator sets.
MainCfg ==
    [radius |-> Px(30), speed |-> Px(5),
     bullet_count |-> 12, bullet_delay |-> 10, bullet_speed |-> Px(10),
     bullet_width |-> Px(20), bullet_height |-> Px(8),
     column_offset |-> Px(15), indicator_length |-> Px(300)]

\* The Player Game.__init__ of main.py creates
Main_NewPlayer ==
    [x |-> Px(width \div 2), y |-> Px(height \div 2),
     aiming |-> FALSE, aim_direction |-> <<17, 0>>,
     shooting |-> FALSE, bullets_to_fire |-> 0, bullet_queue |-> <<>>]

\* Game.__init__ of main.py
Main_init ==
    [player |-> Main_NewPlayer, enemy |-> [absent |-> TRUE],
     player_bullets |-> <<>>, enemy_bullets |-> <<>>, game_over |-> FALSE,
     show |-> FALSE, timer |-> 0, running |-> TRUE]

\* Player.start_shooting in main.py
Main_start_shooting(p) ==
    [p EXCEPT !.shooting = TRUE,
              !.bullets_to_fire = MainCfg.bullet_count,
              !.bullet_queue = AppendBurst(@, p.aim_direction, MainCfg)]

\* Player.update_shooting in main.py
Main_update_shooting(p, bullets) ==
    LET due == SelectSeq(p.bullet_queue, Due)
        rest == SelectSeq(p.bullet_queue, NotDue)
        queue == [k \in 1..Len(rest) |-> [rest[k] EXCEPT !.delay = @ - 1]]
        new == [k \in 1..Len(due) |->
                  NewBullet(p.x + due[k].offset_x, p.y + due[k].offset_y,
                            due[k].dir, MainCfg)]
    IN  [c |-> IF Len(queue) = 0
               THEN [p EXCEPT !.bullet_queue = queue, !.shooting = FALSE]
               ELSE [p EXCEPT !.bullet_queue = queue],
         bullets |-> bullets \o new]

\* One event of the loop "for event in pygame.event.get()" in main.py
Main_HandleEvent(g, ev) ==
    IF ev.type = "QUIT" THEN [g EXCEPT !.running = FALSE]
    ELSE IF ev.type = "MOUSEBUTTONDOWN"
    THEN IF ev.button = 3 THEN [g EXCEPT !.player.aiming = TRUE] ELSE g
    ELSE IF ev.type = "MOUSEBUTTONUP"
    THEN IF ev.button = 3 /\ g.player.aiming
         THEN [g EXCEPT !.player =
                   Main_start_shooting([g.player EXCEPT !.aiming = FALSE])]
         ELSE g
    ELSE g

RECURSIVE Main_HandleEventsFrom(_, _, _)
Main_HandleEventsFrom(g, events, i) ==
    IF i > Len(events) THEN g
    ELSE Main_HandleEventsFrom(Main_HandleEvent(g, events[i]), events, i + 1)

\* Game.handle_events in main.py: the events, the aim at the mouse, the move
Main_handle_events(g, events, mouse, keys) ==
    LET h == Main_HandleEventsFrom(g, events, 1)
        p == update_aim(h.player, mouse[1], mouse[2])
    IN  [h EXCEPT !.player = move(p, MainCfg, KeysDx(keys), KeysDy(keys))]

\* Game.update in main.py
Main_update(g) ==
    LET ps == IF g.player.shooting
              THEN Main_update_shooting(g.player, g.player_bullets)
              ELSE [c |-> g.player, bullets |-> g.player_bullets]
        IsActive(b) == b.active
    IN  [g EXCEPT !.player = ps.c,
                  !.player_bullets = SelectSeq(Advanced(ps.bullets), IsActive)]

\* The frames on which the model lets the right button be pressed or let go
MainClicks == {0, 1, 6, 30}

\* The event lists of such a frame
MainEventLists ==
    {<<>>, <<RightDown>>, <<RightUp>>, <<RightDown, RightUp>>}

InitMain ==
    /\ RoundIs(Main_init)
    /\ pc = "events"
    /\ tick = 0
    /\ call = [NoCall EXCEPT !.op = "new", !.who = "game"]

\* self.handle_events() in Game.run of main.py; call.before is the player
\* before the events, call.emitted the events.
MainEvents(events, mouse, keys) ==
    /\ pc = "events"
    /\ running
    /\ tick < MaxMainTicks
    /\ SetRound(Main_handle_events(Round, events, mouse, keys))
    /\ pc' = "update"
    /\ call' = [call EXCEPT !.op = "handle_events", !.who = "game",
                            !.before = player, !.emitted = events]
    /\ UNCHANGED tick

\* self.update() in Game.run of main.py
MainUpdate ==
    /\ pc = "update"
    /\ SetRound(Main_update(Round))
    /\ pc' = "events"
    /\ tick' = tick + 1
    /\ call' = [call EXCEPT !.op = "update", !.who = "game",
                            !.before = player, !.emitted = <<>>]

NextMain ==
    \/ \E events \in (IF tick \in MainClicks THEN MainEventLists ELSE {<<>>}),
          mouse \in {<<Px(700), Px(300)>>, <<Px(100), Px(300)>>},
          keys \in (IF tick = 0 THEN {{}, {"d"}} ELSE {{}}) :
          MainEvents(events, mouse, keys)
    \/ MainUpdate

SpecMain == InitMain /\ [][NextMain]_vars

\* C37: in the standalone variant bursts do not overlap: a release of the
\* right button that arrives while a burst is in progress adds no shots, and
\* so the fire queue never holds more than bullet_count (12) pending shots.
C37_BurstsDoNotOverlap ==
    /\ Len(player.bullet_queue) <= MainCfg.bullet_count
    /\ (call.op = "handle_events" /\ call.before.shooting)
          => player.bullet_queue = call.before.bullet_queue

\* The right button was let go six frames into a burst: the 10 shots still
\* pending were joined by 12 new ones.
C37_Witness ==
    /\ call.op = "handle_events"
    /\ call.emitted = <<RightUp>>
    /\ call.before.shooting /\ call.before.aiming
    /\ Len(call.before.bullet_queue) = 10
    /\ Len(player.bullet_queue) = 10 + MainCfg.bullet_count
    /\ SubSeq(player.bullet_queue, 1, 10) = call.before.bullet_queue
    /\ player.shooting

===========================================================================
